---- MODULE Spec2Model ----
(***************************************************************************)
(* Transaction relay and confirmation tracking of the anonymous voting     *)
(* backend: the nonce service (getNextNonce), the relay endpoint (POST     *)
(* /api/relay), the confirmation tracker (trackTransactionConfirmation)    *)
(* and the confirmation depth query (getConfirmations).                    *)
(*                                                                         *)
(* JavaScript runs one continuation at a time: a handler is interrupted    *)
(* only at an await.  Each action below is one such uninterrupted piece:   *)
(* from the resolution of an awaited promise up to the next await.         *)
(***************************************************************************)
EXTENDS Integers, Sequences, FiniteSets, TLC

(***************************************************************************)
(* Bounds of the model.                                                    *)
(***************************************************************************)
NumCallers == 3
\* bare callers of getNextNonce in NonceSpec
MaxChainNonce == 10
\* largest pending nonce the chain reports in NonceSpec
NumRequests == 1
\* relay requests in Spec
MaxRelayChainNonce == 1
\* largest pending nonce the chain reports in Spec
MaxTime == 1
\* largest deadline in Spec; the clock reads up to one second more
MaxTrackBlock == 2
\* largest block number the tracker sees in Spec
MaxBlock == 101
\* largest block number and chain head in ConfSpec
MaxBackoffAttempt == 7
\* largest attempt count passed to calcBackoff in BackoffSpec
JitterSteps == 4
\* Math.random() yields k / JitterSteps, and a value just below 1, in BackoffSpec
NumDocs == 1
\* documents the events collection can hold in WorkerSpec
NumSyncCalls == 1
\* syncEventAndConfirm calls in flight at once in WorkerSpec
MaxAge == 1
\* a stored time older than this many ticks is kept as this old
MaxEventAttempts == 2
\* passes start while every event's attempts are below this, in WorkerSpec
MaxRetryAttempts == 11
\* passes start while every event's attempts are below this, in RetrySpec
NumRuns == 2
\* runs of processPending in flight at once in OverlapSpec
NumNotifiers == 2
\* syncEventAndConfirm calls in flight at once in SyncSpec
NumSyncDocs == 2
\* documents the events collection can hold in SyncSpec
NumBatchDocs == 52
\* documents the events collection holds in BatchSpec
NumSeriesDocs == 2
\* documents the events collection holds in SeriesSpec
MaxCounted == 102
\* requests of one forwarded address the rate limiter counts in one window, in RateSpec
MaxUnforwarded == 2
\* requests without a forwarding header the rate limiter counts in one window, in RateSpec
MaxClockSteps == 2
\* windows the middleware's clock runs through in RateSpec

(***************************************************************************)
(* Program constants.                                                      *)
(***************************************************************************)
MAX_RETRIES == 2
CONFIRMATION_COUNT == 2
MAX_ATTEMPTS == 10
REQUIRED_CONFIRMATIONS == 2
MAX_CONFIRMATIONS == 2
BATCH_LIMIT == 50
RATE_LIMIT_MAX == 100
RATE_LIMIT_WINDOW_MS == 900000

RELAYER_ADDRESS == "relayer"

Callers == 1..NumCallers
Requests == 1..NumRequests
ChainNonces == 0..MaxChainNonce
RelayChainNonces == 0..MaxRelayChainNonce
Times == 0..(MaxTime + 1)

VARIABLES
    env,        \* process.env: which of INFURA_URL, RELAYER_PRIVATE_KEY are set
    nonceCache, \* nonce.service: Map<address, next nonce>
    nonceCall,  \* the getNextNonce calls: position and locals of each
    nonceLog,   \* "[Nonce Service] Using Nonce n" lines, in order
    relay,      \* the POST /api/relay requests: position and locals of each
    chainTx,    \* transactions the chain accepted from sendTransaction
    tracker,    \* the trackTransactionConfirmation calls
    confCall,   \* one getConfirmations call: inputs and result
    backoffCall, \* two calcBackoff calls under one configuration: inputs, results
    events,     \* the events collection of the database, by _id
    pass,       \* the processPending runs: position and in-memory documents
    syncCall,   \* the syncEventAndConfirm calls: position, locals and result
    rateLimitCache, \* middleware: Map<ip, { count, resetTime }>
    clock,      \* Date.now() as the middleware reads it, in ms
    lastRequest, \* the request the middleware handled last, and its answer
    passedInWindow \* per ip: /api requests let through since its window began

vars == <<env, nonceCache, nonceCall, nonceLog, relay, chainTx, tracker, confCall,
          backoffCall, events, pass, syncCall,
          rateLimitCache, clock, lastRequest, passedInWindow>>

nonceVars == <<nonceCache, nonceCall, nonceLog>>
relayVars == <<relay, chainTx, tracker>>
workerVars == <<backoffCall, events, pass, syncCall>>
limiterVars == <<rateLimitCache, clock, lastRequest, passedInWindow>>

Max(a, b) == IF a >= b THEN a ELSE b

(***************************************************************************)
(* nonce.service: getNextNonce                                             *)
(***************************************************************************)
IdleCall == [pc |-> "idle", networkNonce |-> 0, cachedNonce |-> 0, nextNonce |-> 0]

\* Variant: the cache lookup never finds the entry.
CachedNonceIgnoringEntry(cache) == 0
\* nonceCache.get(RELAYER_ADDRESS) || 0
CachedNonce(cache) ==
    IF RELAYER_ADDRESS \in DOMAIN cache THEN cache[RELAYER_ADDRESS] ELSE 0

\* Variant: the smaller of the two is used.
NextNonceSmaller(networkNonce, cachedNonce) ==
    IF networkNonce <= cachedNonce THEN networkNonce ELSE cachedNonce
\* Variant: the chain's pending nonce is used as is.
NextNonceChainOnly(networkNonce, cachedNonce) == networkNonce
\* Math.max(networkNonce, cachedNonce)
NextNonce(networkNonce, cachedNonce) == Max(networkNonce, cachedNonce)

\* Variants: the cache is set to nextNonce + 2, or to nextNonce itself.
CacheSetSkipping(cache, nextNonce) ==
    [a \in DOMAIN cache \cup {RELAYER_ADDRESS} |->
        IF a = RELAYER_ADDRESS THEN nextNonce + 2 ELSE cache[a]]
CacheSetNotAdvancing(cache, nextNonce) ==
    [a \in DOMAIN cache \cup {RELAYER_ADDRESS} |->
        IF a = RELAYER_ADDRESS THEN nextNonce ELSE cache[a]]
\* nonceCache.set(RELAYER_ADDRESS, nextNonce + 1)
CacheSet(cache, nextNonce) ==
    [a \in DOMAIN cache \cup {RELAYER_ADDRESS} |->
        IF a = RELAYER_ADDRESS THEN nextNonce + 1 ELSE cache[a]]

\* getNextNonce is entered: provider.getTransactionCount is issued and awaited.
\* A caller calls again only after its previous call returned or threw.
GetNextNonceEnter(c) ==
    /\ nonceCall[c].pc \in {"idle", "returned", "threw"}
    /\ nonceCall' = [nonceCall EXCEPT ![c] = [IdleCall EXCEPT !.pc = "awaitCount"]]
    /\ UNCHANGED <<nonceCache, nonceLog>>

\* Variant: the cache is advanced before the chain read is awaited.
GetTransactionCountRejectAdvancing(c) ==
    /\ nonceCall[c].pc = "awaitCount"
    /\ nonceCall' = [nonceCall EXCEPT ![c].pc = "threw"]
    /\ nonceCache' = CacheSet(nonceCache, CachedNonce(nonceCache))
    /\ UNCHANGED nonceLog
\* The chain read fails: the await throws and getNextNonce rejects.
GetTransactionCountReject(c) ==
    /\ nonceCall[c].pc = "awaitCount"
    /\ nonceCall' = [nonceCall EXCEPT ![c].pc = "threw"]
    /\ UNCHANGED <<nonceCache, nonceLog>>

\* The chain answers the pending count networkNonce and the continuation runs
\* to the return without another await: cache read, max, cache write.
GetNextNonceResume(c, networkNonce) ==
    /\ nonceCall[c].pc = "awaitCount"
    /\ LET cachedNonce == CachedNonce(nonceCache)
           nextNonce == NextNonce(networkNonce, cachedNonce)
       IN /\ nonceCache' = CacheSet(nonceCache, nextNonce)
          /\ nonceLog' = Append(nonceLog, nextNonce)
          /\ nonceCall' = [nonceCall EXCEPT ![c] =
                [pc |-> "returned", networkNonce |-> networkNonce,
                 cachedNonce |-> cachedNonce, nextNonce |-> nextNonce]]

(***************************************************************************)
(* POST /api/relay                                                         *)
(***************************************************************************)
\* Strings are sequences of characters, so that startsWith is computed.
Hex == <<"0", "x", "a">>
NotHex == <<"a", "0", "x">>
PollId == <<"p">>
Empty == <<>>

StartsWith0x(s) == Len(s) >= 2 /\ s[1] = "0" /\ s[2] = "x"

Fields == {"to", "data", "pollId", "chainId", "deadline"}

ValidBody(deadline) ==
    [to |-> Hex, data |-> Hex, pollId |-> PollId, chainId |-> 1, deadline |-> deadline]

Restrict(f, S) == [x \in S |-> f[x]]

\* Request bodies: the well-formed ones, and those with one field bad or absent.
Bodies ==
    {ValidBody(d) : d \in 1..MaxTime}
    \cup {[ValidBody(1) EXCEPT !.to = NotHex], [ValidBody(1) EXCEPT !.data = NotHex],
          [ValidBody(1) EXCEPT !.pollId = Empty], [ValidBody(1) EXCEPT !.chainId = 0],
          [ValidBody(1) EXCEPT !.deadline = 0]}
    \cup {Restrict(ValidBody(1), Fields \ {f}) : f \in Fields}

\* Variant: chainId may be any number.
SchemaOkAnyChainId(body) ==
    /\ DOMAIN body = Fields
    /\ StartsWith0x(body.to)
    /\ StartsWith0x(body.data)
    /\ Len(body.pollId) >= 1
    /\ body.deadline > 0
\* relaySchema.parse(body) succeeds
SchemaOk(body) ==
    /\ DOMAIN body = Fields
    /\ StartsWith0x(body.to)
    /\ StartsWith0x(body.data)
    /\ Len(body.pollId) >= 1
    /\ body.chainId > 0
    /\ body.deadline > 0

\* Variant: a deadline equal to now is let through.
DeadlineExpiredStrict(deadline, now) == deadline < now
\* validated.deadline <= now
DeadlineExpired(deadline, now) == deadline <= now

\* Variant: one more retry.
RetryAllowedOneMore(attempt) == attempt <= MAX_RETRIES
\* attempt < MAX_RETRIES: another attempt follows the failed one.  The loop
\* condition attempt <= MAX_RETRIES agrees with it after attempt++.
RetryAllowed(attempt) == attempt < MAX_RETRIES

\* The error an attempt throws: what failed, and in which loop iteration.
NoError == [kind |-> "null"]
ErrorOf(kind, attempt) == [kind |-> kind, attempt |-> attempt]

\* Variant: only the first error is kept.
CaughtErrorKeepFirst(lastError, error) == IF lastError = NoError THEN error ELSE lastError
\* lastError = error
CaughtError(lastError, error) == error

\* The hash of the signed transaction: one value per signed content.
TxHash(to, data, nonce, chainId) == <<to, data, nonce, chainId>>

NoTx == [sent |-> FALSE]
NoResponse == [status |-> 0]

IdleRelay ==
    [pc |-> "idle", body |-> ValidBody(1), now |-> 0, attempt |-> 0,
     lastError |-> NoError, nonceCalls |-> 0, nonceUsed |-> <<>>, sendCalls |-> 0,
     tx |-> NoTx, response |-> NoResponse]

\* A tracking call: its position, arguments and locals, what the chain
\* answered to its latest attempt (receipt, head) with the outcome seen, and
\* the milliseconds it has spent in sleep(delay) so far.
IdleTracker ==
    [state |-> "none", txHash |-> <<>>, nonce |-> 0, attempt |-> 0, delay |-> 0,
     slept |-> 0,
     receipt |-> [present |-> FALSE], head |-> 0, seen |-> [kind |-> "none"]]

ConfigErrorResponse == [status |-> 500, message |-> "config"]
ValidationFailedResponse == [status |-> 400, success |-> FALSE, error |-> "Validation Failed"]
ExpiredResponse(deadline, now) ==
    [status |-> 400, success |-> FALSE, error |-> "Transaction deadline has expired.",
     details |-> <<deadline, now>>]
RetriesFailedResponse(lastError) ==
    [status |-> 500, success |-> FALSE, error |-> "Relay transaction failed after retries.",
     details |-> lastError, attempts |-> MAX_RETRIES + 1]
SuccessResponse(tx) ==
    [status |-> 200, success |-> TRUE, txHash |-> tx.hash, nonce |-> tx.nonce]

\* Variant: only the signing key is looked at.
SecretsMissingKeyOnly(e) == ~e.RELAYER_PRIVATE_KEY
\* !INFURA_URL || !RELAYER_PRIVATE_KEY
SecretsMissing(e) == ~e.INFURA_URL \/ ~e.RELAYER_PRIVATE_KEY

\* The handler up to its first await on the chain: configuration check, schema
\* validation, deadline check, then the first loop iteration enters getNextNonce.
Post(r, body, now) ==
    /\ relay[r].pc = "idle"
    /\ IF SecretsMissing(env)
       THEN /\ relay' = [relay EXCEPT ![r].pc = "done", ![r].body = body,
                                      ![r].response = ConfigErrorResponse]
            /\ UNCHANGED nonceVars
       ELSE IF ~SchemaOk(body)
       THEN /\ relay' = [relay EXCEPT ![r].pc = "done", ![r].body = body,
                                      ![r].response = ValidationFailedResponse]
            /\ UNCHANGED nonceVars
       ELSE IF DeadlineExpired(body.deadline, now)
       THEN /\ relay' = [relay EXCEPT ![r].pc = "done", ![r].body = body, ![r].now = now,
                                      ![r].response = ExpiredResponse(body.deadline, now)]
            /\ UNCHANGED nonceVars
       ELSE /\ relay' = [relay EXCEPT ![r].pc = "awaitNonce", ![r].body = body,
                                      ![r].now = now, ![r].attempt = 0,
                                      ![r].nonceCalls = 1]
            /\ GetNextNonceEnter(r)
    /\ UNCHANGED <<env, limiterVars, workerVars, chainTx, tracker, confCall>>

\* The catch block of the loop and, on the last attempt, the code after the loop.
AttemptFailed(rec, error) ==
    LET lastError == CaughtError(rec.lastError, error)
        logged == [rec EXCEPT !.lastError = lastError]
    IN IF RetryAllowed(rec.attempt)
       THEN [logged EXCEPT !.pc = "sleep"]
       ELSE [logged EXCEPT !.pc = "done", !.attempt = rec.attempt + 1,
                           !.response = RetriesFailedResponse(lastError)]

\* The attempt's getNextNonce call returns (its promise resolves).
RelayNonceReturned(r, n) ==
    /\ relay[r].pc = "awaitNonce"
    /\ GetNextNonceResume(r, n)
    /\ UNCHANGED <<env, limiterVars, workerVars, relay, chainTx, tracker, confCall>>

\* getNextNonce rejects: the attempt fails before it has a nonce.
RelayNonceRejected(r) ==
    /\ relay[r].pc = "awaitNonce"
    /\ GetTransactionCountReject(r)
    /\ relay' = [relay EXCEPT ![r] = AttemptFailed(relay[r], ErrorOf("getNextNonce", relay[r].attempt))]
    /\ UNCHANGED <<env, limiterVars, workerVars, chainTx, tracker, confCall>>

\* The handler resumes with the nonce and calls relayer.sendTransaction.
RelaySend(r) ==
    /\ relay[r].pc = "awaitNonce"
    /\ nonceCall[r].pc = "returned"
    /\ relay' = [relay EXCEPT ![r].pc = "awaitSend",
                              ![r].nonceUsed = Append(@, nonceCall[r].nextNonce),
                              ![r].sendCalls = @ + 1]
    /\ nonceCall' = [nonceCall EXCEPT ![r] = IdleCall]
    /\ UNCHANGED <<env, limiterVars, workerVars, nonceCache, nonceLog, chainTx, tracker, confCall>>

\* Variant: the wait doubles from one second on.
TrackDelayFromOneSecond(attempt) == (2 ^ (attempt - 1)) * 1000
\* 2^attempt * 1000: the tracker's wait after the attempt
TrackDelay(attempt) == (2 ^ attempt) * 1000

\* trackTransactionConfirmation up to its first await.
TrackStart(txHash, nonce) ==
    IF ~env.INFURA_URL
    THEN [IdleTracker EXCEPT !.state = "noRpc", !.txHash = txHash, !.nonce = nonce]
    ELSE [IdleTracker EXCEPT !.state = "polling", !.txHash = txHash, !.nonce = nonce,
                             !.attempt = 1, !.delay = TrackDelay(1)]

\* Variant: the handler awaits the tracking before it answers.
SendResolveAwaitTracking(r) ==
    /\ relay[r].pc = "awaitSend"
    /\ LET b == relay[r].body
           nonce == relay[r].nonceUsed[Len(relay[r].nonceUsed)]
           tx == [sent |-> TRUE, hash |-> TxHash(b.to, b.data, nonce, b.chainId),
                  nonce |-> nonce]
       IN /\ relay' = [relay EXCEPT ![r].pc = "awaitTrack", ![r].tx = tx]
          /\ chainTx' = chainTx \cup {[hash |-> tx.hash, nonce |-> nonce]}
          /\ tracker' = [tracker EXCEPT ![r] = TrackStart(tx.hash, tx.nonce)]
    /\ UNCHANGED <<env, limiterVars, workerVars, nonceVars, confCall>>
\* Variant: the loop goes on after a send that succeeded.
SendResolveNoBreak(r) ==
    /\ relay[r].pc = "awaitSend"
    /\ LET b == relay[r].body
           nonce == relay[r].nonceUsed[Len(relay[r].nonceUsed)]
           tx == [sent |-> TRUE, hash |-> TxHash(b.to, b.data, nonce, b.chainId),
                  nonce |-> nonce]
       IN /\ relay' = [relay EXCEPT ![r].pc = IF RetryAllowed(relay[r].attempt)
                                              THEN "sleep" ELSE "done",
                                    ![r].tx = tx,
                                    ![r].response = SuccessResponse(tx)]
          /\ chainTx' = chainTx \cup {[hash |-> tx.hash, nonce |-> nonce]}
          /\ tracker' = [tracker EXCEPT ![r] = TrackStart(tx.hash, tx.nonce)]
    /\ UNCHANGED <<env, limiterVars, workerVars, nonceVars, confCall>>
\* sendTransaction resolves: the loop breaks, tracking is started and not
\* awaited, and the success response is returned.
SendResolve(r) ==
    /\ relay[r].pc = "awaitSend"
    /\ LET b == relay[r].body
           nonce == relay[r].nonceUsed[Len(relay[r].nonceUsed)]
           tx == [sent |-> TRUE, hash |-> TxHash(b.to, b.data, nonce, b.chainId),
                  nonce |-> nonce]
       IN /\ relay' = [relay EXCEPT ![r].pc = "done", ![r].tx = tx,
                                    ![r].response = SuccessResponse(tx)]
          /\ chainTx' = chainTx \cup {[hash |-> tx.hash, nonce |-> nonce]}
          /\ tracker' = [tracker EXCEPT ![r] = TrackStart(tx.hash, tx.nonce)]
    /\ UNCHANGED <<env, limiterVars, workerVars, nonceVars, confCall>>

\* sendTransaction rejects: the attempt fails after it obtained its nonce.
SendReject(r) ==
    /\ relay[r].pc = "awaitSend"
    /\ relay' = [relay EXCEPT ![r] = AttemptFailed(relay[r], ErrorOf("sendTransaction", relay[r].attempt))]
    /\ UNCHANGED <<env, limiterVars, workerVars, nonceVars, chainTx, tracker, confCall>>

\* The retry delay elapses: continue, attempt++, the next iteration enters
\* getNextNonce again.
RetryAfterDelay(r) ==
    /\ relay[r].pc = "sleep"
    /\ relay' = [relay EXCEPT ![r].pc = "awaitNonce", ![r].attempt = @ + 1,
                              ![r].nonceCalls = @ + 1]
    /\ GetNextNonceEnter(r)
    /\ UNCHANGED <<env, limiterVars, workerVars, chainTx, tracker, confCall>>

(***************************************************************************)
(* Confirmation depth: blockchain.service getConfirmations and the inline  *)
(* computation of trackTransactionConfirmation                             *)
(***************************************************************************)
NoReceipt == [present |-> FALSE]
Receipt(blockNumber) == [present |-> TRUE, blockNumber |-> blockNumber]
ReceiptsUpTo(maxBlock) == {NoReceipt} \cup {Receipt(b) : b \in 0..maxBlock}

\* Variant: the receipt's own block is not counted.
GetConfirmationsFromZero(urlSet, rpcOk, receipt, head) ==
    IF ~urlSet \/ ~rpcOk THEN [kind |-> "throw"]
    ELSE IF ~receipt.present THEN [kind |-> "null"]
    ELSE IF receipt.blockNumber = 0 THEN [kind |-> "value", value |-> 0]
    ELSE [kind |-> "value", value |-> Max(0, head - receipt.blockNumber)]
\* getConfirmations(txHash) on a chain that answers receipt and head: it
\* throws without RPC URL or when a chain read throws, gives null without a
\* receipt, 0 for a falsy block number, else the depth clamped at 0.
GetConfirmations(urlSet, rpcOk, receipt, head) ==
    IF ~urlSet \/ ~rpcOk THEN [kind |-> "throw"]
    ELSE IF ~receipt.present THEN [kind |-> "null"]
    ELSE IF receipt.blockNumber = 0 THEN [kind |-> "value", value |-> 0]
    ELSE [kind |-> "value", value |-> Max(0, head - receipt.blockNumber + 1)]

\* One polling attempt of the tracker: "pending" without a receipt or with a
\* falsy block number, "error" when a chain read throws, else the depth.
TrackObserve(rpcOk, receipt, head) ==
    IF ~rpcOk THEN [kind |-> "error"]
    ELSE IF ~receipt.present \/ receipt.blockNumber = 0 THEN [kind |-> "pending"]
    ELSE [kind |-> "value", value |-> head - receipt.blockNumber + 1]

\* A depth query and what the chain will answer to it: whether its reads
\* succeed, the receipt, the head.
ConfCalled(rpcOk, receipt, head) ==
    [pc |-> "called", rpcOk |-> rpcOk, receipt |-> receipt, head |-> head,
     result |-> [kind |-> "none"], tracked |-> [kind |-> "none"]]

IdleConfCall == [ConfCalled(TRUE, NoReceipt, 0) EXCEPT !.pc = "idle"]

\* getConfirmations runs to its return or throw.
ConfQuery ==
    /\ confCall.pc = "called"
    /\ confCall' = [confCall EXCEPT !.pc = "queried",
          !.result = GetConfirmations(env.INFURA_URL, confCall.rpcOk, confCall.receipt,
                                      confCall.head)]
    /\ UNCHANGED <<env, limiterVars, workerVars, nonceVars, relayVars>>

\* The tracker's attempt on the same chain answers.
ConfTrack ==
    /\ confCall.pc = "queried"
    /\ confCall' = [confCall EXCEPT !.pc = "done",
          !.tracked = TrackObserve(confCall.rpcOk, confCall.receipt, confCall.head)]
    /\ UNCHANGED <<env, limiterVars, workerVars, nonceVars, relayVars>>

(***************************************************************************)
(* trackTransactionConfirmation: one iteration of the polling loop         *)
(***************************************************************************)
\* Variant: one confirmation is taken for enough.
DepthReachedAtOne(confirmations) == confirmations >= 1
\* confirmations >= CONFIRMATION_COUNT
DepthReached(confirmations) == confirmations >= CONFIRMATION_COUNT

\* Variant: the loop admits one attempt more.
TrackMayRetryOneMore(attempt) == attempt <= MAX_ATTEMPTS
\* attempt < MAX_ATTEMPTS: the loop condition, and the guard of the sleep
TrackMayRetry(attempt) == attempt < MAX_ATTEMPTS

\* Variant: a failed read of the chain leaves the function as a rejection.
TrackPollRejecting(r, rpcOk, receipt, head) ==
    /\ tracker[r].state = "polling"
    /\ LET seen == TrackObserve(rpcOk, receipt, head)
           t == [tracker[r] EXCEPT !.receipt = receipt, !.head = head, !.seen = seen]
       IN tracker' = [tracker EXCEPT ![r] =
            IF seen.kind = "error"
            THEN [t EXCEPT !.state = "rejected"]
            ELSE IF seen.kind = "value" /\ DepthReached(seen.value)
            THEN [t EXCEPT !.state = "confirmed"]
            ELSE IF TrackMayRetry(t.attempt)
            THEN [t EXCEPT !.attempt = t.attempt + 1, !.delay = TrackDelay(t.attempt + 1),
                           !.slept = t.slept + t.delay]
            ELSE [t EXCEPT !.state = "exhausted"]]
    /\ UNCHANGED <<env, limiterVars, workerVars, nonceVars, relay, chainTx, confCall>>
\* The chain answers the reads of the attempt in flight: the tracker returns
\* on enough confirmations; else it sleeps and enters the next attempt, or
\* leaves the loop after the last one.
TrackPoll(r, rpcOk, receipt, head) ==
    /\ tracker[r].state = "polling"
    /\ LET seen == TrackObserve(rpcOk, receipt, head)
           t == [tracker[r] EXCEPT !.receipt = receipt, !.head = head, !.seen = seen]
       IN tracker' = [tracker EXCEPT ![r] =
            IF seen.kind = "value" /\ DepthReached(seen.value)
            THEN [t EXCEPT !.state = "confirmed"]
            ELSE IF TrackMayRetry(t.attempt)
            THEN [t EXCEPT !.attempt = t.attempt + 1, !.delay = TrackDelay(t.attempt + 1),
                           !.slept = t.slept + t.delay]
            ELSE [t EXCEPT !.state = "exhausted"]]
    /\ UNCHANGED <<env, limiterVars, workerVars, nonceVars, relay, chainTx, confCall>>

(***************************************************************************)
(* backoff: calcBackoff                                                    *)
(***************************************************************************)
Min(a, b) == IF a <= b THEN a ELSE b

\* An outcome of Math.random(): the fraction num / den, in [0, 1).
Random(num, den) == [num |-> num, den |-> den]
Randoms == {Random(k, JitterSteps) : k \in 0..(JitterSteps - 1)} \cup {Random(999, 1000)}

\* Variant: Math.max in place of Math.min.
BackoffExpAtLeastMax(attempt, baseMs, maxMs) == Max(maxMs, baseMs * (2 ^ attempt))
\* Math.min(maxMs, baseMs * Math.pow(2, attempt))
BackoffExp(attempt, baseMs, maxMs) == Min(maxMs, baseMs * (2 ^ attempt))

\* Variant: the jitter ranges over 40% of exp.
BackoffJitterWide(exp, random) == (random.num * exp * 2) \div (5 * random.den)
\* Math.floor(Math.random() * (exp * 0.2))
BackoffJitter(exp, random) == (random.num * exp) \div (5 * random.den)

\* calcBackoff(attempt, baseMs, maxMs) when Math.random() yields random
CalcBackoff(attempt, baseMs, maxMs, random) ==
    LET exp == BackoffExp(attempt, baseMs, maxMs)
    IN exp + BackoffJitter(exp, random)

\* Configurations <<baseMs, maxMs>>: the defaults, a maximum that no attempt
\* reaches, one that falls between two powers, and one below the base.
BackoffConfigs ==
    {<<1000, 60000>>, <<1000, 1000000>>, <<1000, 35000>>, <<1, 4>>, <<1000, 500>>}

BackoffAttempts == 0..MaxBackoffAttempt

NoDelay == [called |-> FALSE]
Delay(attempt, baseMs, maxMs, random) ==
    [called |-> TRUE, exp |-> BackoffExp(attempt, baseMs, maxMs),
     delay |-> CalcBackoff(attempt, baseMs, maxMs, random)]

\* Two calls calcBackoff(n, baseMs, maxMs) and calcBackoff(m, baseMs, maxMs)
\* with the outcomes rn and rm of Math.random().
BackoffCalled(config, n, m, rn, rm) ==
    [pc |-> "called", baseMs |-> config[1], maxMs |-> config[2], n |-> n, m |-> m,
     rn |-> rn, rm |-> rm, first |-> NoDelay, second |-> NoDelay]

IdleBackoffCall ==
    [BackoffCalled(<<1000, 60000>>, 1, 1, Random(0, 1), Random(0, 1)) EXCEPT !.pc = "idle"]

BackoffFirst ==
    /\ backoffCall.pc = "called"
    /\ LET c == backoffCall
       IN backoffCall' = [c EXCEPT !.pc = "first",
                                   !.first = Delay(c.n, c.baseMs, c.maxMs, c.rn)]
    /\ UNCHANGED <<env, limiterVars, nonceVars, relayVars, confCall, events, pass, syncCall>>

BackoffSecond ==
    /\ backoffCall.pc = "first"
    /\ LET c == backoffCall
       IN backoffCall' = [c EXCEPT !.pc = "done",
                                   !.second = Delay(c.m, c.baseMs, c.maxMs, c.rm)]
    /\ UNCHANGED <<env, limiterVars, nonceVars, relayVars, confCall, events, pass, syncCall>>

(***************************************************************************)
(* The events collection: documents of the Event model (enqueueEvent,      *)
(* processPending) and documents syncEventAndConfirm writes with the       *)
(* database driver.                                                        *)
(*                                                                         *)
(* Times are kept relative to the present: a time at ticks from now has    *)
(* at > 0 in the future and at <= 0 in the past.                           *)
(***************************************************************************)
Docs == 1..NumDocs
\* The runs of processPending followed here come one after another: each
\* ends within POLL_INTERVAL, before setInterval starts the next.
Passes == {1}
SyncCalls == 1..NumSyncCalls
EventIds == {"e1"}

\* A field that holds a time, holds null, or is not in the document.
Absent == [kind |-> "absent"]
Null == [kind |-> "null"]
Date(at) == [kind |-> "date", at |-> at]

\* A document.  writer tells who inserted it: "none" for a free _id, "model"
\* for the Event model, "driver" for syncEventAndConfirm.  A field the
\* document lacks is "absent", Absent, or 0 for a number.  The fields no
\* code reads are left out: requestId, eventName, payload, and the createdAt
\* and updatedAt of the Event model.
NoDoc ==
    [writer |-> "none", txHash |-> "absent", eventId |-> "absent", status |-> "absent",
     confirmations |-> 0, attempts |-> 0, nextRetryAt |-> Absent,
     confirmationCount |-> 0, lastConfirmedAt |-> Absent, createdAt |-> Absent]

\* EventModel.create({..., status: 'PENDING', attempts: 0, confirmations: 0}):
\* the schema fills nextRetryAt with its default, null.
CreatedEvent(txHash) ==
    [NoDoc EXCEPT !.writer = "model", !.txHash = txHash, !.status = "PENDING",
                  !.confirmations = 0, !.attempts = 0, !.nextRetryAt = Null]

\* An event stored without a nextRetryAt field (IEvent declares it optional).
StoredEvent(txHash) == [CreatedEvent(txHash) EXCEPT !.nextRetryAt = Absent]

\* insertOne(newEventData) of syncEventAndConfirm
InsertedAck(eventId) ==
    [NoDoc EXCEPT !.writer = "driver", !.eventId = eventId, !.status = "PENDING",
                  !.confirmationCount = 1, !.lastConfirmedAt = Date(0),
                  !.createdAt = Date(0)]

FreeIds(coll) == {d \in DOMAIN coll : coll[d].writer = "none"}
\* The _id an insert takes.
FreshId(coll) == CHOOSE d \in FreeIds(coll) : \A f \in FreeIds(coll) : d <= f

\* One tick passes: a time moves one tick towards the past.  A retry time is
\* only ever compared with the present, so an elapsed one stays at 0.
Elapse(t, oldest) ==
    IF t.kind = "date" THEN Date(Max(t.at - 1, oldest)) ELSE t
ElapseDoc(doc) ==
    [doc EXCEPT !.nextRetryAt = Elapse(@, 0), !.lastConfirmedAt = Elapse(@, 0 - MaxAge),
                !.createdAt = Elapse(@, 0 - MaxAge)]

(***************************************************************************)
(* Event sync worker: enqueueEvent and processPending                      *)
(***************************************************************************)
\* BACKOFF_BASE_MS and BACKOFF_MAX_MS as the environment sets them; one tick
\* is one millisecond.
WorkerBackoff == <<1, 4>>
\* With these the jitter, floor(random * exp * 0.2) with exp <= 4, is 0 for
\* every outcome of Math.random(): one outcome stands for all.
WorkerRandoms == {Random(0, 1)}

\* enqueueEvent(txHash, eventName, payload)
EnqueueEvent(txHash) ==
    /\ FreeIds(events) # {}
    /\ events' = [events EXCEPT ![FreshId(events)] = CreatedEvent(txHash)]
    /\ UNCHANGED <<env, limiterVars, nonceVars, relayVars, confCall, backoffCall, pass, syncCall>>

\* { status: 'PENDING', $or: [{ nextRetryAt: { $exists: false } },
\*                            { nextRetryAt: { $lte: now } }] }
\* $exists: false matches a document without the field, not one that holds
\* null; $lte with a date matches dates only.
PendingQuery(doc) ==
    /\ doc.status = "PENDING"
    /\ \/ doc.nextRetryAt.kind = "absent"
       \/ doc.nextRetryAt.kind = "date" /\ doc.nextRetryAt.at <= 0

\* The paths of EventSchema: the model loads and saves these only.
SchemaPaths == {"txHash", "status", "confirmations", "attempts", "nextRetryAt"}

\* The in-memory copy of a stored document: its schema paths, a missing one
\* filled with the schema default.
Hydrate(doc) ==
    [f \in SchemaPaths |->
        IF f = "nextRetryAt" /\ doc[f] = Absent THEN Null ELSE doc[f]]

\* The documents of _id d and above that the query matches, in _id order,
\* each with the copy the pass holds in memory.
RECURSIVE MatchingFrom(_, _)
MatchingFrom(coll, d) ==
    IF d \notin DOMAIN coll THEN <<>>
    ELSE (IF PendingQuery(coll[d]) THEN <<[id |-> d, doc |-> Hydrate(coll[d])]>> ELSE <<>>)
         \o MatchingFrom(coll, d + 1)

\* Variant: find without limit.
FindPendingNoLimit(coll) == MatchingFrom(coll, 1)
\* EventModel.find(...).limit(50).exec()
FindPending(coll) ==
    LET all == MatchingFrom(coll, 1)
    IN SubSeq(all, 1, Min(Len(all), BATCH_LIMIT))

\* A pass: its position, the documents find gave it, the index and in-memory
\* copy of the one it is handling, whether it is in the try or the catch, and
\* what getConfirmations gave for that document.
IdlePass ==
    [pc |-> "idle", pending |-> <<>>, idx |-> 0, ev |-> Hydrate(NoDoc), branch |-> "none",
     seen |-> "none"]

\* processPending up to its first await on the chain: the query, and
\* getConfirmations for the first document.
PassStart(p) ==
    /\ pass[p].pc \in {"idle", "done", "failed"}
    /\ LET pending == FindPending(events)
       IN pass' = [pass EXCEPT ![p] =
            IF pending = <<>>
            THEN [IdlePass EXCEPT !.pc = "done"]
            ELSE [pc |-> "chain", pending |-> pending, idx |-> 1, ev |-> pending[1].doc,
                  branch |-> "try", seen |-> "none"]]
    /\ UNCHANGED <<env, limiterVars, nonceVars, relayVars, confCall, backoffCall, events, syncCall>>

\* What getConfirmations(ev.txHash) gives: the chain holds no transaction for
\* a document without txHash.
QueryDepth(ev, rpcOk, receipt, head) ==
    IF ev.txHash = "absent" THEN [kind |-> "throw"]
    ELSE GetConfirmations(env.INFURA_URL, rpcOk, receipt, head)

\* confirmations >= REQUIRED_CONFIRMATIONS
Finalizes(confirmations) == confirmations >= REQUIRED_CONFIRMATIONS

\* Variant: attempts goes up by two.
RetrySkipping(ev, random) ==
    [ev EXCEPT !.attempts = @ + 2,
               !.nextRetryAt = Date(CalcBackoff(ev.attempts + 2, WorkerBackoff[1],
                                                WorkerBackoff[2], random))]
\* ev.attempts += 1 (in the catch: (ev.attempts || 0) + 1), then
\* ev.nextRetryAt = new Date(Date.now() + calcBackoff(ev.attempts, ...))
Retry(ev, random) ==
    [ev EXCEPT !.attempts = @ + 1,
               !.nextRetryAt = Date(CalcBackoff(ev.attempts + 1, WorkerBackoff[1],
                                                WorkerBackoff[2], random))]

\* The try block from the answer of getConfirmations to ev.save().
Observed(ev, confirmations, random) ==
    LET seen == [ev EXCEPT !.confirmations = confirmations]
    IN IF Finalizes(confirmations)
       THEN [seen EXCEPT !.status = "FINALIZED", !.nextRetryAt = Absent]
       ELSE Retry(seen, random)

\* getConfirmations settles: the pass updates its copy and calls ev.save().
PassChain(p, rpcOk, receipt, head, random) ==
    /\ pass[p].pc = "chain"
    /\ LET result == QueryDepth(pass[p].ev, rpcOk, receipt, head)
       IN pass' = [pass EXCEPT ![p] =
            IF result.kind = "value"
            THEN [@ EXCEPT !.pc = "save", !.branch = "try", !.seen = result.kind,
                           !.ev = Observed(@, result.value, random)]
            ELSE [@ EXCEPT !.pc = "save", !.branch = "catch", !.seen = result.kind,
                           !.ev = Retry(@, random)]]
    /\ UNCHANGED <<env, limiterVars, nonceVars, relayVars, confCall, backoffCall, events, syncCall>>

\* ev.save() sends the paths whose value differs from the loaded one.
Modified(loaded, ev) == {f \in SchemaPaths : ev[f] # loaded[f]}
\* Variant: save writes every schema path of the copy.
SaveIntoEveryPath(stored, loaded, ev) ==
    [f \in DOMAIN stored |-> IF f \in SchemaPaths THEN ev[f] ELSE stored[f]]
SaveInto(stored, loaded, ev) ==
    [f \in DOMAIN stored |-> IF f \in Modified(loaded, ev) THEN ev[f] ELSE stored[f]]

\* for (const ev of pending): the next document, or the end of the pass.
NextPending(rec) ==
    IF rec.idx < Len(rec.pending)
    THEN [rec EXCEPT !.pc = "chain", !.idx = rec.idx + 1, !.branch = "try",
                     !.seen = "none", !.ev = rec.pending[rec.idx + 1].doc]
    ELSE [rec EXCEPT !.pc = "done", !.ev = Hydrate(NoDoc)]

\* ev.save() resolves.
PassSaved(p) ==
    /\ pass[p].pc = "save"
    /\ LET cur == pass[p].pending[pass[p].idx]
       IN events' = [events EXCEPT ![cur.id] = SaveInto(@, cur.doc, pass[p].ev)]
    /\ pass' = [pass EXCEPT ![p] = NextPending(@)]
    /\ UNCHANGED <<env, limiterVars, nonceVars, relayVars, confCall, backoffCall, syncCall>>

\* ev.save() rejects: in the try block the catch block takes over and saves
\* again; in the catch block the rejection leaves processPending.
PassSaveFailed(p, random) ==
    /\ pass[p].pc = "save"
    /\ pass' = [pass EXCEPT ![p] =
          IF @.branch = "try"
          THEN [@ EXCEPT !.branch = "catch", !.ev = Retry(@, random)]
          ELSE [@ EXCEPT !.pc = "failed", !.seen = "none", !.ev = Hydrate(NoDoc)]]
    /\ UNCHANGED <<env, limiterVars, nonceVars, relayVars, confCall, backoffCall, events, syncCall>>

(***************************************************************************)
(* db.service: syncEventAndConfirm                                         *)
(***************************************************************************)
NoResult == [status |-> "none", confirmationCount |-> 0]

\* The body of a request to POST /api/event/sync as request.json() gives it:
\* an object whose fields hold a text, the empty text or nothing, or null;
\* "invalid" stands for a body request.json() rejects, "none" for no request.
NoBody == [kind |-> "none"]
SyncBody(eventId, requestId) ==
    [kind |-> "object", eventId |-> eventId, requestId |-> requestId]

\* A syncEventAndConfirm call: its position, locals and return value; with
\* the request that made it, if one did, and whether its handler caught a throw.
IdleSync ==
    [pc |-> "idle", eventId |-> "absent", count |-> 0, status |-> "none", at |-> Absent,
     result |-> NoResult, body |-> NoBody, thrown |-> FALSE]

WithEventId(coll, eventId) == {d \in DOMAIN coll : coll[d].eventId = eventId}
\* The document findOne and updateOne take for { eventId: eventId }.
FirstWithEventId(coll, eventId) ==
    CHOOSE d \in WithEventId(coll, eventId) : \A f \in WithEventId(coll, eventId) : d <= f

\* Variant: one more acknowledgement is taken before the event counts as final.
AckFinalAboveMax(currentConfirmations) == currentConfirmations > MAX_CONFIRMATIONS
\* Variant: the event never counts as final.
AckFinalNever(currentConfirmations) == FALSE
\* currentConfirmations >= MAX_CONFIRMATIONS
AckFinal(currentConfirmations) == currentConfirmations >= MAX_CONFIRMATIONS

\* Variant: the second acknowledgement leaves the event PENDING.
AckStatusStaysPending(currentConfirmations) == "PENDING"
\* currentConfirmations === MAX_CONFIRMATIONS ? 'CONFIRMED' : 'PENDING'
AckStatus(currentConfirmations) ==
    IF currentConfirmations = MAX_CONFIRMATIONS THEN "CONFIRMED" ELSE "PENDING"

\* syncEventAndConfirm(eventId) from its entry to its return or to the write
\* it awaits, findOne having answered from coll.
SyncEntered(coll, eventId) ==
    IF WithEventId(coll, eventId) = {}
    THEN [IdleSync EXCEPT !.pc = "insert", !.eventId = eventId, !.count = 1,
                          !.status = "PENDING", !.at = Date(0)]
    ELSE LET currentConfirmations ==
                 coll[FirstWithEventId(coll, eventId)].confirmationCount
         IN IF AckFinal(currentConfirmations)
            THEN [IdleSync EXCEPT !.pc = "done", !.eventId = eventId,
                      !.result = [status |-> "FINALIZED",
                                  confirmationCount |-> MAX_CONFIRMATIONS]]
            ELSE [IdleSync EXCEPT !.pc = "update", !.eventId = eventId,
                      !.count = currentConfirmations + 1,
                      !.status = AckStatus(currentConfirmations + 1),
                      !.at = Date(0)]

\* findOne answers and the call runs to its return or to the write it awaits.
\* A new call is given the first record that holds no call in flight.
SyncFound(s, eventId) ==
    /\ syncCall[s].pc \in {"idle", "done"}
    /\ \A f \in DOMAIN syncCall : syncCall[f].pc \in {"idle", "done"} => s <= f
    /\ syncCall' = [syncCall EXCEPT ![s] = SyncEntered(events, eventId)]
    /\ UNCHANGED <<env, limiterVars, nonceVars, relayVars, confCall, backoffCall, events, pass>>

\* updateOne({ eventId }, { $set: ... }) is applied and the call returns.
SyncUpdate(s) ==
    /\ syncCall[s].pc = "update"
    /\ LET c == syncCall[s]
       IN /\ events' = [events EXCEPT ![FirstWithEventId(events, c.eventId)] =
                [@ EXCEPT !.confirmationCount = c.count, !.lastConfirmedAt = c.at,
                          !.status = c.status]]
          /\ syncCall' = [syncCall EXCEPT ![s] =
                [c EXCEPT !.pc = "done", !.at = Absent,
                          !.result = [status |-> c.status, confirmationCount |-> c.count]]]
    /\ UNCHANGED <<env, limiterVars, nonceVars, relayVars, confCall, backoffCall, pass>>

\* insertOne(newEventData) is applied and the call returns.
SyncInsert(s) ==
    /\ syncCall[s].pc = "insert"
    /\ FreeIds(events) # {}
    /\ LET c == syncCall[s]
       IN /\ events' = [events EXCEPT ![FreshId(events)] =
                [InsertedAck(c.eventId) EXCEPT !.lastConfirmedAt = c.at, !.createdAt = c.at]]
          /\ syncCall' = [syncCall EXCEPT ![s] =
                [c EXCEPT !.pc = "done", !.at = Absent,
                          !.result = [status |-> "PENDING", confirmationCount |-> 1]]]
    /\ UNCHANGED <<env, limiterVars, nonceVars, relayVars, confCall, backoffCall, pass>>

(***************************************************************************)
(* POST /api/event/sync                                                    *)
(***************************************************************************)
SyncBodies ==
    {SyncBody(e, q) : e \in EventIds \cup {"", "absent"}, q \in {"r1", "", "absent"}}
        \cup {[kind |-> "null"], [kind |-> "invalid"]}

\* request.json() rejects, or const { eventId, requestId } = body throws.
SyncBodyThrows(body) == body.kind \in {"invalid", "null"}

\* Variant: only eventId is looked at.
SyncFieldsMissingEventIdOnly(body) == body.eventId \in {"", "absent"}
\* !eventId || !requestId
SyncFieldsMissing(body) ==
    body.eventId \in {"", "absent"} \/ body.requestId \in {"", "absent"}

\* The answer of the handler for a call that is over.
SyncResponse(c) ==
    IF c.pc # "done" \/ c.body = NoBody THEN [status |-> 0]
    ELSE IF c.thrown
    THEN [status |-> 503, success |-> FALSE, error_type |-> "TRANSIENT_FAILURE",
          retryAfter |-> 50]
    ELSE IF c.result = NoResult
    THEN [status |-> 400, success |-> FALSE, message |-> "Missing required fields."]
    ELSE [status |-> 200, success |-> TRUE, result |-> c.result]

\* POST up to its return or to the write syncEventAndConfirm awaits: the
\* body is read and checked, dbConnect and findOne answer (dbOk) or reject.
SyncPost(s, body, dbOk) ==
    /\ syncCall[s].pc \in {"idle", "done"}
    /\ \A f \in DOMAIN syncCall : syncCall[f].pc \in {"idle", "done"} => s <= f
    /\ syncCall' = [syncCall EXCEPT ![s] =
          IF SyncBodyThrows(body)
          THEN [IdleSync EXCEPT !.pc = "done", !.body = body, !.thrown = TRUE]
          ELSE IF SyncFieldsMissing(body)
          THEN [IdleSync EXCEPT !.pc = "done", !.body = body]
          ELSE IF ~dbOk
          THEN [IdleSync EXCEPT !.pc = "done", !.body = body, !.eventId = body.eventId,
                                !.thrown = TRUE]
          ELSE [SyncEntered(events, body.eventId) EXCEPT !.body = body]]
    /\ UNCHANGED <<env, limiterVars, nonceVars, relayVars, confCall, backoffCall, events, pass>>

\* updateOne or insertOne rejects: syncEventAndConfirm throws to the handler.
SyncWriteFailed(s) ==
    /\ syncCall[s].pc \in {"insert", "update"}
    /\ syncCall[s].body # NoBody
    /\ syncCall' = [syncCall EXCEPT ![s] = [@ EXCEPT !.pc = "done", !.at = Absent,
                                                      !.thrown = TRUE]]
    /\ UNCHANGED <<env, limiterVars, nonceVars, relayVars, confCall, backoffCall, events, pass>>

(***************************************************************************)
(* Time                                                                    *)
(***************************************************************************)
\* The retry times a pass loaded have elapsed; the one it set has not.
ElapsePass(rec) == [rec EXCEPT !.ev.nextRetryAt = Elapse(@, 0)]

\* One tick passes.
Tick ==
    /\ events' = [d \in DOMAIN events |-> ElapseDoc(events[d])]
    /\ pass' = [p \in DOMAIN pass |-> ElapsePass(pass[p])]
    /\ syncCall' = [s \in DOMAIN syncCall |-> [syncCall[s] EXCEPT !.at = Elapse(@, 0 - MaxAge)]]
    /\ <<events', pass', syncCall'>> # <<events, pass, syncCall>>
    /\ UNCHANGED <<env, limiterVars, nonceVars, relayVars, confCall, backoffCall>>

(***************************************************************************)
(* middleware: CORS preflight and the rate limit of /api paths             *)
(***************************************************************************)
Methods == {"POST", "OPTIONS"}
Paths == {"/api/relay", "/polls"}
\* the origin header: absent, one of allowedOrigins, or another
Origins == {"none", "http://localhost:3000", "http://elsewhere"}
\* the x-forwarded-for header: absent, or one address
Forwarded == {"none", "10.0.0.1"}

allowedOrigins == {"http://localhost:3000", "http://localhost:3001"}

\* (origin && allowedOrigins.includes(origin)) || !origin
OriginAllowed(origin) == origin \in allowedOrigins \/ origin = "none"

\* url.pathname.startsWith('/api')
StartsWithApi(path) == path = "/api/relay"

\* getClientIp(request) ?? 'anonymous'
ClientIp(xff) == IF xff = "none" THEN "anonymous" ELSE xff

\* the entry of a new window
FreshWindow(now) == [count |-> 0, resetTime |-> now + RATE_LIMIT_WINDOW_MS]

\* the entry applyRateLimit counts on: created when absent, renewed when its
\* reset time is behind now
WindowAt(cache, ip, now) ==
    IF ip \notin DOMAIN cache THEN FreshWindow(now)
    ELSE IF cache[ip].resetTime < now THEN FreshWindow(now)
    ELSE cache[ip]

\* Variant: one request more than RATE_LIMIT_MAX is let through.
ApplyRateLimitLenient(cache, ip, now) ==
    LET counted == [WindowAt(cache, ip, now) EXCEPT !.count = @ + 1]
    IN  [cache |-> [i \in DOMAIN cache \cup {ip} |-> IF i = ip THEN counted ELSE cache[i]],
         limited |-> counted.count > RATE_LIMIT_MAX + 1]
\* Variant: an entry is never renewed.
ApplyRateLimitNoReset(cache, ip, now) ==
    LET entry == IF ip \notin DOMAIN cache THEN FreshWindow(now) ELSE cache[ip]
        counted == [entry EXCEPT !.count = @ + 1]
    IN  [cache |-> [i \in DOMAIN cache \cup {ip} |-> IF i = ip THEN counted ELSE cache[i]],
         limited |-> counted.count > RATE_LIMIT_MAX]
\* applyRateLimit(ip): the cache it leaves and the value it returns
ApplyRateLimit(cache, ip, now) ==
    LET counted == [WindowAt(cache, ip, now) EXCEPT !.count = @ + 1]
    IN  [cache |-> [i \in DOMAIN cache \cup {ip} |-> IF i = ip THEN counted ELSE cache[i]],
         limited |-> counted.count > RATE_LIMIT_MAX]

NoRequest == [method |-> "none", path |-> "none", ip |-> "none", result |-> "none"]

\* /api requests of ip let through since the window of its entry began
PassedAfter(passed, cache, ip, now, limited) ==
    LET renewed == WindowAt(cache, ip, now).count = 0
        before == IF renewed \/ ip \notin DOMAIN passed THEN 0 ELSE passed[ip]
    IN  [i \in DOMAIN passed \cup {ip} |->
            IF i = ip THEN before + (IF limited THEN 0 ELSE 1) ELSE passed[i]]

\* middleware(request): one request from getting the headers to the response.
\* Nothing is awaited, so the whole function is one step.
Middleware(method, path, origin, xff) ==
    /\ WindowAt(rateLimitCache, ClientIp(xff), clock).count
          < (IF xff = "none" THEN MaxUnforwarded ELSE MaxCounted)
    /\ IF method = "OPTIONS"
       THEN /\ lastRequest' = [method |-> method, path |-> path, ip |-> ClientIp(xff),
                               result |-> IF OriginAllowed(origin) THEN "204" ELSE "403"]
            /\ UNCHANGED <<rateLimitCache, passedInWindow>>
       ELSE IF StartsWithApi(path)
       THEN LET ip == ClientIp(xff)
                applied == ApplyRateLimit(rateLimitCache, ip, clock)
            IN  /\ rateLimitCache' = applied.cache
                /\ lastRequest' = [method |-> method, path |-> path, ip |-> ip,
                                   result |-> IF applied.limited THEN "429" ELSE "next"]
                /\ passedInWindow' =
                      PassedAfter(passedInWindow, rateLimitCache, ip, clock, applied.limited)
       ELSE /\ lastRequest' = [method |-> method, path |-> path, ip |-> ClientIp(xff),
                               result |-> "next"]
            /\ UNCHANGED <<rateLimitCache, passedInWindow>>
    /\ UNCHANGED <<env, nonceVars, relayVars, confCall, workerVars, clock>>

\* Date.now() moves on by the length of a window.
ClockAdvance ==
    /\ clock < MaxClockSteps * RATE_LIMIT_WINDOW_MS
    /\ clock' = clock + RATE_LIMIT_WINDOW_MS
    /\ UNCHANGED <<env, nonceVars, relayVars, confCall, workerVars,
                   rateLimitCache, lastRequest, passedInWindow>>

\* The middleware before its first request.
LimiterIdle ==
    /\ rateLimitCache = <<>>
    /\ clock = 0
    /\ lastRequest = NoRequest
    /\ passedInWindow = <<>>

\* The worker and its helpers at rest.
WorkerIdle ==
    /\ backoffCall = IdleBackoffCall
    /\ events = [d \in Docs |-> NoDoc]
    /\ pass = [p \in Passes |-> IdlePass]
    /\ syncCall = [s \in SyncCalls |-> IdleSync]

(***************************************************************************)
(* Specifications                                                          *)
(***************************************************************************)
Envs == [INFURA_URL : BOOLEAN, RELAYER_PRIVATE_KEY : BOOLEAN]

\* The relay endpoint serving Requests.
Init ==
    /\ env \in Envs
    /\ nonceCache = <<>>
    /\ nonceCall = [r \in Requests |-> IdleCall]
    /\ nonceLog = <<>>
    /\ relay = [r \in Requests |-> IdleRelay]
    /\ chainTx = {}
    /\ tracker = [r \in Requests |-> IdleTracker]
    /\ confCall = IdleConfCall
    /\ WorkerIdle
    /\ LimiterIdle

Next ==
    \/ \E r \in Requests, body \in Bodies, now \in Times : Post(r, body, now)
    \/ \E r \in Requests, n \in RelayChainNonces : RelayNonceReturned(r, n)
    \/ \E r \in Requests : RelayNonceRejected(r)
    \/ \E r \in Requests : RelaySend(r)
    \/ \E r \in Requests : SendResolve(r)
    \/ \E r \in Requests : SendReject(r)
    \/ \E r \in Requests : RetryAfterDelay(r)

Spec == Init /\ [][Next]_vars

\* One request from POST to the end of the tracking its handler started.
FirstRequest == CHOOSE r \in Requests : \A q \in Requests : r <= q

HandoverNext ==
    \/ \E body \in Bodies, now \in Times : Post(FirstRequest, body, now)
    \/ \E n \in RelayChainNonces : RelayNonceReturned(FirstRequest, n)
    \/ RelayNonceRejected(FirstRequest)
    \/ RelaySend(FirstRequest)
    \/ SendResolve(FirstRequest)
    \/ SendReject(FirstRequest)
    \/ RetryAfterDelay(FirstRequest)
    \/ \E rpcOk \in BOOLEAN, receipt \in ReceiptsUpTo(MaxTrackBlock), head \in 0..MaxTrackBlock :
          TrackPoll(FirstRequest, rpcOk, receipt, head)

HandoverSpec == Init /\ [][HandoverNext]_vars

\* A tracker alone (tracking calls share no state): the transaction of one
\* request was sent with nonce n and the relay handler started its tracking.
TrackInit ==
    /\ env \in {e \in Envs : e.RELAYER_PRIVATE_KEY}
    /\ nonceCache = <<>>
    /\ nonceCall = [r \in Requests |-> IdleCall]
    /\ nonceLog = <<>>
    /\ relay = [r \in Requests |-> IdleRelay]
    /\ chainTx = {}
    /\ \E q \in Requests, n \in RelayChainNonces :
          tracker = [r \in Requests |->
                        IF r = q THEN TrackStart(TxHash(Hex, Hex, n, 1), n) ELSE IdleTracker]
    /\ confCall = IdleConfCall
    /\ WorkerIdle
    /\ LimiterIdle

TrackNext ==
    \E r \in Requests, rpcOk \in BOOLEAN, receipt \in ReceiptsUpTo(MaxTrackBlock),
       head \in 0..MaxTrackBlock : TrackPoll(r, rpcOk, receipt, head)

TrackSpec == TrackInit /\ [][TrackNext]_vars

\* Every chain read of an attempt settles and every sleep ends: a tracker with
\* an attempt in flight takes its next step.
TrackFairness ==
    \A r \in Requests :
        WF_vars(\E rpcOk \in BOOLEAN, receipt \in ReceiptsUpTo(MaxTrackBlock),
                   head \in 0..MaxTrackBlock : TrackPoll(r, rpcOk, receipt, head))

TrackLiveSpec == TrackSpec /\ TrackFairness

\* The process ends and starts again: what it held in memory is gone (the
\* nonce cache, the requests and calls in flight, the tracking started by
\* POST), what is stored (the events collection) and the chain stay.
Restart ==
    /\ nonceCache' = <<>>
    /\ nonceCall' = [c \in DOMAIN nonceCall |-> IdleCall]
    /\ relay' = [r \in Requests |-> IdleRelay]
    /\ tracker' = [r \in Requests |-> IdleTracker]
    /\ confCall' = IdleConfCall
    /\ backoffCall' = IdleBackoffCall
    /\ pass' = [p \in DOMAIN pass |-> IdlePass]
    /\ syncCall' = [s \in DOMAIN syncCall |-> IdleSync]
    /\ rateLimitCache' = <<>>
    /\ passedInWindow' = <<>>
    /\ UNCHANGED <<env, nonceLog, chainTx, events, clock, lastRequest>>

\* The tracker of one handed-over transaction in a process that can restart.
RestartNext == TrackNext \/ Restart

RestartSpec == TrackInit /\ [][RestartNext]_vars

\* getNextNonce called by Callers concurrently, one call each.
NonceInit ==
    /\ env = [INFURA_URL |-> TRUE, RELAYER_PRIVATE_KEY |-> TRUE]
    /\ nonceCache = <<>>
    /\ nonceCall = [c \in Callers |-> IdleCall]
    /\ nonceLog = <<>>
    /\ relay = [r \in Requests |-> IdleRelay]
    /\ chainTx = {}
    /\ tracker = [r \in Requests |-> IdleTracker]
    /\ confCall = IdleConfCall
    /\ WorkerIdle
    /\ LimiterIdle

NonceCall(c) ==
    /\ nonceCall[c].pc = "idle"
    /\ GetNextNonceEnter(c)
    /\ UNCHANGED <<env, limiterVars, workerVars, relayVars, confCall>>

NonceCountReject(c) ==
    GetTransactionCountReject(c) /\ UNCHANGED <<env, limiterVars, workerVars, relayVars, confCall>>

NonceResume(c, n) ==
    GetNextNonceResume(c, n) /\ UNCHANGED <<env, limiterVars, workerVars, relayVars, confCall>>

NonceNext ==
    \/ \E c \in Callers : NonceCall(c)
    \/ \E c \in Callers, n \in ChainNonces : NonceResume(c, n)
    \/ \E c \in Callers : NonceCountReject(c)

NonceSpec == NonceInit /\ [][NonceNext]_vars

\* getConfirmations and the tracker's depth on every chain answer.
ConfInit ==
    /\ env \in {e \in Envs : e.RELAYER_PRIVATE_KEY}
    /\ nonceCache = <<>>
    /\ nonceCall = [r \in Requests |-> IdleCall]
    /\ nonceLog = <<>>
    /\ relay = [r \in Requests |-> IdleRelay]
    /\ chainTx = {}
    /\ tracker = [r \in Requests |-> IdleTracker]
    /\ \E rpcOk \in BOOLEAN, receipt \in ReceiptsUpTo(MaxBlock), head \in 0..MaxBlock :
          confCall = ConfCalled(rpcOk, receipt, head)
    /\ WorkerIdle
    /\ LimiterIdle

ConfNext == ConfQuery \/ ConfTrack

ConfSpec == ConfInit /\ [][ConfNext]_vars

\* calcBackoff on every pair of attempt counts and of jitter outcomes.
BackoffInit ==
    /\ env = [INFURA_URL |-> TRUE, RELAYER_PRIVATE_KEY |-> TRUE]
    /\ nonceCache = <<>>
    /\ nonceCall = [r \in Requests |-> IdleCall]
    /\ nonceLog = <<>>
    /\ relay = [r \in Requests |-> IdleRelay]
    /\ chainTx = {}
    /\ tracker = [r \in Requests |-> IdleTracker]
    /\ confCall = IdleConfCall
    /\ \E config \in BackoffConfigs, n, m \in BackoffAttempts, rn, rm \in Randoms :
          backoffCall = BackoffCalled(config, n, m, rn, rm)
    /\ events = [d \in Docs |-> NoDoc]
    /\ pass = [p \in Passes |-> IdlePass]
    /\ syncCall = [s \in SyncCalls |-> IdleSync]
    /\ LimiterIdle

BackoffNext == BackoffFirst \/ BackoffSecond

BackoffSpec == BackoffInit /\ [][BackoffNext]_vars

\* The collection as the process finds it: tracked events stored without a
\* nextRetryAt field, at the lowest _ids.
StoredCollections ==
    {[d \in Docs |-> IF d <= k THEN StoredEvent("0xtx") ELSE NoDoc] : k \in 0..NumDocs}

WorkerInitOf(colls, runs, calls) ==
    /\ env = [INFURA_URL |-> TRUE, RELAYER_PRIVATE_KEY |-> TRUE]
    /\ nonceCache = <<>>
    /\ nonceCall = [r \in Requests |-> IdleCall]
    /\ nonceLog = <<>>
    /\ relay = [r \in Requests |-> IdleRelay]
    /\ chainTx = {}
    /\ tracker = [r \in Requests |-> IdleTracker]
    /\ confCall = IdleConfCall
    /\ backoffCall = IdleBackoffCall
    /\ events \in colls
    /\ pass = [p \in runs |-> IdlePass]
    /\ syncCall = [s \in calls |-> IdleSync]
    /\ LimiterIdle
WorkerInitWith(colls) == WorkerInitOf(colls, Passes, SyncCalls)

\* No event has used limit attempts: the model follows an event that far.
AttemptsBelow(limit) == \A d \in DOMAIN events : events[d].attempts < limit

\* The worker, enqueueEvent and syncEventAndConfirm on one collection.
WorkerInit == WorkerInitWith(StoredCollections)

WorkerNext ==
    \/ EnqueueEvent("0xtx")
    \/ \E p \in Passes : AttemptsBelow(MaxEventAttempts) /\ PassStart(p)
    \/ \E p \in Passes, rpcOk \in BOOLEAN, receipt \in ReceiptsUpTo(MaxTrackBlock),
          head \in 0..MaxTrackBlock, random \in WorkerRandoms :
          PassChain(p, rpcOk, receipt, head, random)
    \/ \E p \in Passes : PassSaved(p)
    \/ \E p \in Passes, random \in WorkerRandoms : PassSaveFailed(p, random)
    \/ \E s \in SyncCalls, eventId \in EventIds : SyncFound(s, eventId)
    \/ \E s \in SyncCalls : SyncUpdate(s)
    \/ \E s \in SyncCalls : SyncInsert(s)
    \/ Tick

WorkerSpec == WorkerInit /\ [][WorkerNext]_vars

\* The worker on one stored event whose transaction never gets a receipt.
RetryInit == WorkerInitWith({[d \in Docs |-> IF d = 1 THEN StoredEvent("0xtx") ELSE NoDoc]})

RetryNext ==
    \/ \E p \in Passes : AttemptsBelow(MaxRetryAttempts) /\ PassStart(p)
    \/ \E p \in Passes, rpcOk \in BOOLEAN, head \in 0..MaxTrackBlock,
          random \in WorkerRandoms : PassChain(p, rpcOk, NoReceipt, head, random)
    \/ \E p \in Passes : PassSaved(p)
    \/ \E p \in Passes, random \in WorkerRandoms : PassSaveFailed(p, random)
    \/ Tick

RetrySpec == RetryInit /\ [][RetryNext]_vars

\* runWorkerLoop: processPending is called at once and then by setInterval
\* every POLL_INTERVAL, whether or not an earlier run has returned.
Runs == 1..NumRuns
OverlapInit ==
    WorkerInitOf({[d \in Docs |-> IF d = 1 THEN StoredEvent("0xtx") ELSE NoDoc]}, Runs,
                 SyncCalls)

OverlapNext ==
    \/ \E p \in Runs : AttemptsBelow(MaxEventAttempts) /\ PassStart(p)
    \/ \E p \in Runs, rpcOk \in BOOLEAN, receipt \in ReceiptsUpTo(MaxTrackBlock),
          head \in 0..MaxTrackBlock, random \in WorkerRandoms :
          PassChain(p, rpcOk, receipt, head, random)
    \/ \E p \in Runs : PassSaved(p)
    \/ \E p \in Runs, random \in WorkerRandoms : PassSaveFailed(p, random)
    \/ Tick

OverlapSpec == OverlapInit /\ [][OverlapNext]_vars

\* POST /api/event/sync from several notifiers: syncEventAndConfirm calls
\* for one eventId on a collection that starts empty.
Notifiers == 1..NumNotifiers
SyncInit == WorkerInitOf({[d \in 1..NumSyncDocs |-> NoDoc]}, Passes, Notifiers)

SyncNext ==
    \/ \E s \in Notifiers, eventId \in EventIds : SyncFound(s, eventId)
    \/ \E s \in Notifiers : SyncUpdate(s)
    \/ \E s \in Notifiers : SyncInsert(s)
    \/ Tick

SyncSpec == SyncInit /\ [][SyncNext]_vars

\* syncEventAndConfirm called again and again for two events, each call
\* after the one before it has returned.
NoSyncInFlight == \A s \in DOMAIN syncCall : syncCall[s].pc \in {"idle", "done"}
\* the events the calls are about
SeqEventIds == {"e1", "e2"}

SyncSeqNext ==
    \/ \E s \in Notifiers, eventId \in SeqEventIds : NoSyncInFlight /\ SyncFound(s, eventId)
    \/ \E s \in Notifiers : SyncUpdate(s)
    \/ \E s \in Notifiers : SyncInsert(s)
    \/ Tick

SyncSeqSpec == SyncInit /\ [][SyncSeqNext]_vars

\* POST /api/event/sync from several notifiers, with bodies of every kind
\* and a store that may fail.
SyncRouteNext ==
    \/ \E s \in Notifiers, body \in SyncBodies, dbOk \in BOOLEAN : SyncPost(s, body, dbOk)
    \/ \E s \in Notifiers : SyncUpdate(s)
    \/ \E s \in Notifiers : SyncInsert(s)
    \/ \E s \in Notifiers : SyncWriteFailed(s)
    \/ Tick

SyncRouteSpec == SyncInit /\ [][SyncRouteNext]_vars

\* An event a pass finalized, and one a pass put off by one tick.
FinalizedEvent(txHash) ==
    [StoredEvent(txHash) EXCEPT !.status = "FINALIZED", !.confirmations = REQUIRED_CONFIRMATIONS]
PutOffEvent(txHash) ==
    [StoredEvent(txHash) EXCEPT !.attempts = 1, !.nextRetryAt = Date(1)]

\* A collection of more events than one pass takes: the first is new,
\* enqueued, finalized or put off, the others are new.
BatchCollections ==
    {[d \in 1..NumBatchDocs |-> IF d = 1 THEN first ELSE StoredEvent("0xtx")] :
        first \in {StoredEvent("0xtx"), CreatedEvent("0xtx"), FinalizedEvent("0xtx"),
                   PutOffEvent("0xtx")}}

\* The worker on a full batch of events whose transactions have no receipt;
\* every save succeeds, and a run of processPending is over within the tick
\* it began in.
BatchInit == WorkerInitWith(BatchCollections)

BatchNext ==
    \/ \E p \in Passes : AttemptsBelow(MaxEventAttempts) /\ PassStart(p)
    \/ \E p \in Passes, rpcOk \in BOOLEAN, random \in WorkerRandoms :
          PassChain(p, rpcOk, NoReceipt, 0, random)
    \/ \E p \in Passes : PassSaved(p)
    \/ (\A p \in Passes : pass[p].pc \notin {"chain", "save"}) /\ Tick

BatchSpec == BatchInit /\ [][BatchNext]_vars

(***************************************************************************)
(* Properties of getNextNonce, checked under NonceSpec                     *)
(***************************************************************************)
ReturnedCalls == {c \in DOMAIN nonceCall : nonceCall[c].pc = "returned"}
ReturnedNonces == {nonceLog[i] : i \in DOMAIN nonceLog}
Last(seq) == seq[Len(seq)]

\* C1: whatever the interleaving of the calls and of the chain's answers, no
\* two getNextNonce calls of one process return the same nonce.
C1_DistinctNonces ==
    /\ \A c, d \in ReturnedCalls : c # d => nonceCall[c].nextNonce # nonceCall[d].nextNonce
    /\ \A i, j \in DOMAIN nonceLog : i # j => nonceLog[i] # nonceLog[j]

\* Two calls to which the chain reported the same pending nonce have returned.
C1_Witness ==
    \E c, d \in ReturnedCalls :
        /\ c # d
        /\ nonceCall[c].networkNonce = nonceCall[d].networkNonce
        /\ nonceCall[c].nextNonce < nonceCall[d].nextNonce

\* C2 as stated: the returned nonces, once sorted, are contiguous, whatever
\* the chain reports: every value between two returned nonces was returned.
C2_Contiguous ==
    \A a, b \in ReturnedNonces : \A n \in a..b : n \in ReturnedNonces

\* C2 amended: the nonces are returned in strictly increasing order; a call
\* returns the previously returned nonce plus one unless the chain reports it
\* a larger pending nonce, and then it returns the chain's value (a gap).
C2_IncreasingContiguousUnlessChainAhead ==
    [][\A c \in DOMAIN nonceCall :
          (nonceCall[c].pc = "awaitCount" /\ nonceCall'[c].pc = "returned"
             /\ nonceLog # <<>>)
          => LET prev == Last(nonceLog)
                 net == nonceCall'[c].networkNonce
                 ret == nonceCall'[c].nextNonce
             IN /\ ret > prev
                /\ nonceLog' = Append(nonceLog, ret)
                /\ net <= prev + 1 => ret = prev + 1
                /\ net > prev + 1 => ret = net]_vars

\* Three calls returned; the chain ran ahead of the cache before the last one.
C2_Witness ==
    /\ Len(nonceLog) = 3
    /\ nonceLog[2] = nonceLog[1] + 1
    /\ nonceLog[3] > nonceLog[2] + 1

\* C3: getNextNonce returns max(chainNonce, cachedNonce), with 0 for a cache
\* without entry, and leaves the cache at the returned value plus one.
C3_ReturnsMaxAndAdvances ==
    [][\A c \in DOMAIN nonceCall :
          (nonceCall[c].pc = "awaitCount" /\ nonceCall'[c].pc = "returned")
          => LET cached == IF DOMAIN nonceCache = {} THEN 0
                           ELSE nonceCache[RELAYER_ADDRESS]
                 net == nonceCall'[c].networkNonce
                 ret == nonceCall'[c].nextNonce
                 after == nonceCache'[RELAYER_ADDRESS]
             IN /\ ret = IF net > cached THEN net ELSE cached
                /\ after = ret + 1
                /\ (net = 5 /\ cached = 7) => (ret = 7 /\ after = 8)
                /\ (net = 10 /\ cached = 7) => (ret = 10 /\ after = 11)]_vars

\* Chain 5, cache 7: the call returned 7 and the cache is 8.
C3_Witness ==
    \E c \in ReturnedCalls :
        /\ nonceCall[c].networkNonce = 5
        /\ nonceCall[c].cachedNonce = 7
        /\ nonceCall[c].nextNonce = 7
        /\ nonceCache[RELAYER_ADDRESS] = 8

\* C4: a call whose chain read fails ends without a nonce, and the step that
\* fails it leaves the nonce cache (and the record of returned nonces) as is.
C4_FailedReadLeavesCache ==
    [][\A c \in DOMAIN nonceCall :
          (nonceCall[c].pc = "awaitCount" /\ nonceCall'[c].pc = "threw")
          => /\ nonceCache' = nonceCache
             /\ nonceLog' = nonceLog
             /\ nonceCall'[c].nextNonce = 0
             /\ nonceCall'[c].cachedNonce = 0]_vars

\* A chain read failed while the cache held an entry, which it still holds:
\* the only call that returned got 4, and the cache is 5.
C4_Witness ==
    /\ \E c \in DOMAIN nonceCall : nonceCall[c].pc = "threw"
    /\ nonceLog = <<4>>
    /\ nonceCache[RELAYER_ADDRESS] = 5

(***************************************************************************)
(* Properties of POST /api/relay, checked under Spec                       *)
(***************************************************************************)
Configured == env.INFURA_URL /\ env.RELAYER_PRIVATE_KEY
Received == {r \in Requests : relay[r].pc # "idle"}
\* Requests that passed the configuration check and the schema validation.
Validated == {r \in Received : Configured /\ SchemaOk(relay[r].body)}
AllNonceUses == {<<r, i>> : r \in Requests, i \in 1..(MAX_RETRIES + 2)}
NonceUses == {u \in AllNonceUses : u[2] <= Len(relay[u[1]].nonceUsed)}

\* C5: a request whose deadline is not after the clock reading is answered
\* 400 at once; it calls neither getNextNonce nor sendTransaction.
C5_ExpiredRejectedUntouched ==
    \A r \in Validated :
        relay[r].body.deadline <= relay[r].now
        => /\ relay[r].pc = "done"
           /\ relay[r].response.status = 400
           /\ relay[r].response.error = "Transaction deadline has expired."
           /\ relay[r].nonceCalls = 0
           /\ relay[r].nonceUsed = <<>>
           /\ relay[r].sendCalls = 0
           /\ nonceCall[r].pc = "idle"
           /\ ~relay[r].tx.sent
           /\ tracker[r].state = "none"

\* A request whose deadline equals the clock reading was rejected.
C5_Witness ==
    \E r \in Validated :
        /\ relay[r].body.deadline = relay[r].now
        /\ relay[r].response.status = 400

\* C6: the attempts of a request use pairwise different nonces, and a nonce an
\* attempt obtained is handed to no other attempt of any request.
C6_FailedNonceNeverReused ==
    /\ \A u, v \in NonceUses :
          u # v => relay[u[1]].nonceUsed[u[2]] # relay[v[1]].nonceUsed[v[2]]
    /\ \A c \in ReturnedCalls : \A u \in NonceUses :
          nonceCall[c].nextNonce # relay[u[1]].nonceUsed[u[2]]
    /\ \A i, j \in DOMAIN nonceLog : i # j => nonceLog[i] # nonceLog[j]

\* The first attempt obtained a nonce and failed, the second one was sent
\* with another nonce.
C6_Witness ==
    \E r \in Requests :
        /\ Len(relay[r].nonceUsed) = 2
        /\ relay[r].attempt = 1
        /\ relay[r].tx.sent
        /\ relay[r].tx.nonce = relay[r].nonceUsed[2]
        /\ relay[r].tx.nonce # relay[r].nonceUsed[1]

\* C7: a request makes at most 3 attempts, each with at most one getNextNonce
\* call and one send, and once it has answered it calls neither again.
C7_AtMostThreeAttempts ==
    /\ [](\A r \in Requests :
            /\ relay[r].nonceCalls <= 3
            /\ relay[r].sendCalls <= relay[r].nonceCalls
            /\ Len(relay[r].nonceUsed) = relay[r].sendCalls
            /\ relay[r].pc \in {"awaitNonce", "awaitSend", "sleep"}
               => relay[r].nonceCalls = relay[r].attempt + 1
            /\ relay[r].pc = "done" => nonceCall[r].pc \in {"idle", "threw"})
    /\ [][\A r \in Requests :
            relay[r].pc = "done"
            => /\ relay'[r].nonceCalls = relay[r].nonceCalls
               /\ relay'[r].sendCalls = relay[r].sendCalls
               /\ relay'[r].pc = "done"]_vars

\* All three attempts were made and failed.
C7_Witness ==
    \E r \in Requests :
        /\ relay[r].pc = "done"
        /\ relay[r].nonceCalls = 3
        /\ relay[r].sendCalls = 3
        /\ ~relay[r].tx.sent

\* C8: a request all of whose attempts failed answers 500 with attempts = 3
\* and the error of its last attempt as details, and starts no tracking.
C8_ExhaustedReportsLastError ==
    \A r \in Validated :
        (relay[r].pc = "done" /\ relay[r].nonceCalls > 0 /\ ~relay[r].tx.sent)
        => /\ relay[r].response.status = 500
           /\ relay[r].response.attempts = 3
           /\ relay[r].nonceCalls = 3
           /\ relay[r].response.details.kind \in {"getNextNonce", "sendTransaction"}
           /\ relay[r].response.details.attempt = 2
           /\ tracker[r].state = "none"
           /\ chainTx = {tx \in chainTx : \E q \in Requests \ {r} :
                             relay[q].tx.sent /\ relay[q].tx.hash = tx.hash}

\* The first two attempts failed in getNextNonce, the last one in the send,
\* and the response carries the send's error.
C8_Witness ==
    \E r \in Validated :
        /\ relay[r].pc = "done"
        /\ relay[r].response.status = 500
        /\ relay[r].nonceCalls = 3
        /\ relay[r].sendCalls = 1
        /\ relay[r].response.details = ErrorOf("sendTransaction", 2)

\* C9: once the send succeeded, the request has answered 200 with the hash
\* and nonce of the transaction the chain accepted, and the tracking of
\* exactly that hash is running, not finished; nothing else starts tracking.
C9_TrackingStartedResponseReturned ==
    \A r \in Requests :
        /\ relay[r].tx.sent
           => /\ relay[r].pc = "done"
              /\ relay[r].response.status = 200
              /\ relay[r].response.txHash = relay[r].tx.hash
              /\ relay[r].response.nonce = relay[r].tx.nonce
              /\ relay[r].tx.nonce = Last(relay[r].nonceUsed)
              /\ [hash |-> relay[r].tx.hash, nonce |-> relay[r].tx.nonce] \in chainTx
              /\ tracker[r].txHash = relay[r].tx.hash
              /\ tracker[r].state = "polling"
              /\ tracker[r].attempt = 1
        /\ tracker[r].state # "none" => relay[r].tx.sent
        /\ relay[r].response.status = 200 => relay[r].tx.sent

\* A request answered 200 after a retry while its tracking is still polling.
C9_Witness ==
    \E r \in Requests :
        /\ relay[r].response.status = 200
        /\ relay[r].attempt = 1
        /\ tracker[r].state = "polling"
        /\ tracker[r].txHash = relay[r].tx.hash

(***************************************************************************)
(* Properties of the confirmation depth, checked under ConfSpec            *)
(***************************************************************************)
ConfAnswered == confCall.pc \in {"queried", "done"} /\ env.INFURA_URL /\ confCall.rpcOk
ConfHasBlock == confCall.receipt.present /\ confCall.receipt.blockNumber >= 1
ConfDepth == confCall.head - confCall.receipt.blockNumber + 1

\* C10 as stated: for every receipt with a block number getConfirmations
\* gives head - block + 1, and null when the chain has no receipt.
C10_DepthIsHeadMinusBlockPlusOne ==
    ConfAnswered
    => /\ ConfHasBlock => confCall.result = [kind |-> "value", value |-> ConfDepth]
       /\ ~confCall.receipt.present => confCall.result = [kind |-> "null"]

\* C10 amended: for a receipt with a block number the depth is head - block
\* + 1 whenever that is not negative; getConfirmations gives 0 where it would
\* be negative (a head more than one block behind the receipt), the tracker
\* does not clamp; getConfirmations gives null when the chain has no receipt.
C10_DepthClampedAtZero ==
    /\ ConfAnswered
       => /\ ConfHasBlock
             => confCall.result =
                  [kind |-> "value", value |-> IF ConfDepth >= 0 THEN ConfDepth ELSE 0]
          /\ (ConfHasBlock /\ confCall.receipt.blockNumber = 100 /\ confCall.head = 101)
             => confCall.result.value = 2
          /\ (ConfHasBlock /\ confCall.receipt.blockNumber = 100 /\ confCall.head = 100)
             => confCall.result.value = 1
          /\ ~confCall.receipt.present => confCall.result = [kind |-> "null"]
    /\ (confCall.pc = "done" /\ confCall.rpcOk /\ ConfHasBlock)
       => confCall.tracked = [kind |-> "value", value |-> ConfDepth]

\* The receipt is at block 100, the head at 101, and both computations gave 2.
C10_Witness ==
    /\ confCall.pc = "done"
    /\ confCall.receipt = Receipt(100)
    /\ confCall.head = 101
    /\ confCall.result = [kind |-> "value", value |-> 2]
    /\ confCall.tracked = [kind |-> "value", value |-> 2]

(***************************************************************************)
(* Properties of trackTransactionConfirmation, checked under TrackSpec     *)
(***************************************************************************)
Tracked == {r \in Requests : tracker[r].state \in {"polling", "confirmed", "exhausted"}}
\* Trackers whose latest attempt was answered.
Polled == {r \in Tracked : tracker[r].seen.kind # "none"}
TrackDepth(r) == tracker[r].head - tracker[r].receipt.blockNumber + 1
TrackHasBlock(r) == tracker[r].receipt.present /\ tracker[r].receipt.blockNumber >= 1

\* C11: tracking has ended with success only if the chain answered its latest
\* attempt without error, with a receipt and a head that give a depth of at
\* least 2; after an attempt without receipt, or with a depth below 2, the
\* tracking has not ended with success.
C11_SuccessOnlyAtDepthTwo ==
    \A r \in Polled :
        /\ tracker[r].state = "confirmed"
           => /\ tracker[r].seen.kind = "value"
              /\ tracker[r].receipt.present
              /\ TrackDepth(r) >= 2
        /\ (~tracker[r].receipt.present \/ tracker[r].seen.kind # "value")
           => tracker[r].state # "confirmed"
        /\ (TrackHasBlock(r) /\ TrackDepth(r) < 2) => tracker[r].state # "confirmed"
        /\ (tracker[r].seen.kind = "value" /\ TrackHasBlock(r) /\ TrackDepth(r) >= 2)
           => tracker[r].state = "confirmed"

\* A tracker ended with success on its third attempt, at depth exactly 2,
\* when its transaction was one block below the head.
C11_Witness ==
    \E r \in Tracked :
        /\ tracker[r].state = "confirmed"
        /\ tracker[r].attempt = 3
        /\ tracker[r].receipt.present
        /\ tracker[r].head = tracker[r].receipt.blockNumber + 1

TrackEnded(r) == tracker[r].state \in {"noRpc", "confirmed", "exhausted"}

\* C12: a tracking call makes at most 10 attempts, whatever the chain
\* answers and however long that takes; it ends exhausted exactly when the
\* tenth attempt did not reach the depth, a call that has ended makes no
\* further attempt, and every call ends.
C12_TerminatesWithinTenAttempts ==
    /\ [](\A r \in Tracked :
            /\ tracker[r].attempt \in 1..10
            /\ tracker[r].state = "exhausted"
               => /\ tracker[r].attempt = 10
                  /\ ~(tracker[r].seen.kind = "value" /\ tracker[r].seen.value >= 2))
    /\ [][\A r \in Requests : TrackEnded(r) => tracker'[r] = tracker[r]]_vars
    /\ \A r \in Requests : (tracker[r].state = "polling") ~> TrackEnded(r)

\* A tracker used all ten attempts, the last one without a receipt, and ended.
C12_Witness ==
    \E r \in Tracked :
        /\ tracker[r].state = "exhausted"
        /\ tracker[r].attempt = 10
        /\ tracker[r].seen.kind = "pending"

(***************************************************************************)
(* Properties of calcBackoff, checked under BackoffSpec                    *)
(***************************************************************************)
\* C13 as stated: for every attempt count n >= 1, every base and maximum and
\* every jitter outcome, base <= calcBackoff(n, base, max) <= max * 1.2.
C13_BoundedForEveryConfig ==
    (backoffCall.first.called /\ backoffCall.n >= 1)
    => /\ backoffCall.baseMs <= backoffCall.first.delay
       /\ 5 * backoffCall.first.delay <= 6 * backoffCall.maxMs

\* C13 amended: for every attempt count n >= 1, every jitter outcome, and
\* every base and maximum with 0 < base <= max, the delay is at least base
\* and at most max * 1.2; it is at least min(max, 2 * base).
C13_BoundedWhenBaseAtMostMax ==
    (backoffCall.first.called /\ backoffCall.n >= 1
        /\ 0 < backoffCall.baseMs /\ backoffCall.baseMs <= backoffCall.maxMs)
    => /\ backoffCall.baseMs <= backoffCall.first.delay
       /\ 5 * backoffCall.first.delay <= 6 * backoffCall.maxMs
       /\ backoffCall.first.delay >= backoffCall.maxMs
          \/ backoffCall.first.delay >= 2 * backoffCall.baseMs

\* The defaults, an attempt count at which the delay is capped, and the
\* largest jitter outcome: the delay is within 1% of max * 1.2.
C13_Witness ==
    /\ backoffCall.first.called
    /\ backoffCall.baseMs = 1000 /\ backoffCall.maxMs = 60000
    /\ backoffCall.n = 6
    /\ backoffCall.first.delay > 71280
    /\ backoffCall.first.delay < 72000

BackoffBoth == backoffCall.pc = "done" /\ backoffCall.n < backoffCall.m

\* C14 as stated: for attempt counts n < m, delay(n) <= delay(m) for every
\* pair of jitter outcomes.
C14_MonotoneForEveryPair ==
    BackoffBoth => backoffCall.first.delay <= backoffCall.second.delay

\* C14 amended: for n < m the delay before jitter, min(max, base * 2^n), is
\* not larger at n than at m; the delays themselves satisfy delay(n) <=
\* delay(m) for every pair of jitter outcomes when base * 2^m <= max, that is
\* when delay(m) is not capped.
C14_MonotoneBelowCap ==
    BackoffBoth
    => /\ backoffCall.first.exp <= backoffCall.second.exp
       /\ backoffCall.baseMs * (2 ^ backoffCall.m) <= backoffCall.maxMs
          => backoffCall.first.delay <= backoffCall.second.delay

\* The defaults, n = 4 with the largest jitter and m = 5 with none: delay(4)
\* stays below delay(5), which is not capped.
C14_Witness ==
    /\ BackoffBoth
    /\ backoffCall.baseMs = 1000 /\ backoffCall.maxMs = 60000
    /\ backoffCall.n = 4 /\ backoffCall.m = 5
    /\ backoffCall.first.delay > 19000
    /\ backoffCall.second.delay = 32000

BackoffDefaults == backoffCall.baseMs = 1000 /\ backoffCall.maxMs = 60000

\* C15: with the defaults calcBackoff(1) lies in [1000, 1200] ms,
\* calcBackoff(2) in [2000, 2400], calcBackoff(3) in [4000, 4800] and
\* calcBackoff(4) in [8000, 9600].
C15_DocumentedDelays ==
    (backoffCall.first.called /\ BackoffDefaults)
    => LET d == backoffCall.first.delay
       IN /\ backoffCall.n = 1 => (1000 <= d /\ d <= 1200)
          /\ backoffCall.n = 2 => (2000 <= d /\ d <= 2400)
          /\ backoffCall.n = 3 => (4000 <= d /\ d <= 4800)
          /\ backoffCall.n = 4 => (8000 <= d /\ d <= 9600)

(***************************************************************************)
(* Properties of the event sync worker and of syncEventAndConfirm,         *)
(* checked under WorkerSpec and RetrySpec                                  *)
(***************************************************************************)
TrackedDocs == {d \in Docs : events[d].writer = "model"}
AckDocs == {d \in Docs : events[d].writer = "driver"}

C17_FinalizedNeverRegresses ==
    [][\A d \in Docs :
          /\ events[d].status = "FINALIZED" => events'[d].status = "FINALIZED"
          /\ (d \in AckDocs /\ events[d].confirmationCount >= 2)
             => events'[d].status = events[d].status]_vars

\* An event was finalized by a pass that saw depth 2 or more, and a later
\* pass has run and selected nothing.
C17_Witness ==
    \E d \in TrackedDocs, p \in Passes :
        /\ events[d].status = "FINALIZED"
        /\ events[d].confirmations >= 2
        /\ pass[p].pc = "done"
        /\ pass[p].pending = <<>>

\* A syncEventAndConfirm call begins in this step.
SyncBegins(s) == syncCall[s].pc \in {"idle", "done"} /\ syncCall'[s] # syncCall[s]

\* C18: a syncEventAndConfirm call for an event that already has its 2
\* acknowledgements returns FINALIZED with count 2 in the step that finds
\* the document, without awaiting any write: the collection, and with it
\* the document's status, count and timestamps, is the same after as before.
C18_SyncOfFinalizedWritesNothing ==
    [][\A s \in SyncCalls : \A d \in AckDocs :
          (SyncBegins(s) /\ events[d].eventId = syncCall'[s].eventId
              /\ events[d].confirmationCount >= 2
              /\ d = FirstWithEventId(events, events[d].eventId))
          => /\ syncCall'[s].pc = "done"
             /\ syncCall'[s].result = [status |-> "FINALIZED", confirmationCount |-> 2]
             /\ events' = events]_vars

\* A call returned FINALIZED for a document whose last acknowledgement is
\* older than the call.
C18_Witness ==
    \E s \in SyncCalls, d \in AckDocs :
        /\ syncCall[s].pc = "done"
        /\ syncCall[s].result.status = "FINALIZED"
        /\ events[d].eventId = syncCall[s].eventId
        /\ events[d].confirmationCount = 2
        /\ events[d].status = "CONFIRMED"
        /\ events[d].lastConfirmedAt.at < 0

PassBegins(p) ==
    /\ pass[p].pc \in {"idle", "done", "failed"}
    /\ pass'[p] # pass[p]
    /\ events' = events

\* C20: enqueueEvent stores an event with status PENDING, confirmations 0,
\* attempts 0 and no retry time, and the next pass that runs selects it.
C20_EnqueuedSelectedByNextPass ==
    [][/\ \A d \in Docs :
            (events[d].writer = "none" /\ events'[d].writer = "model")
            => /\ events'[d].status = "PENDING"
               /\ events'[d].confirmations = 0
               /\ events'[d].attempts = 0
               /\ events'[d].nextRetryAt.kind # "date"
       /\ \A p \in Passes : \A d \in TrackedDocs :
            (PassBegins(p) /\ events[d] = CreatedEvent(events[d].txHash))
            => \E i \in DOMAIN pass'[p].pending : pass'[p].pending[i].id = d]_vars

\* The worker alone on a few stored events, each read of the chain and each
\* save succeeding or failing.
SeriesInit == WorkerInitWith({[d \in 1..NumSeriesDocs |-> StoredEvent("0xtx")]})

SeriesNext ==
    \/ \E p \in Passes : AttemptsBelow(MaxEventAttempts) /\ PassStart(p)
    \/ \E p \in Passes, rpcOk \in BOOLEAN, receipt \in ReceiptsUpTo(MaxTrackBlock),
          head \in 0..MaxTrackBlock, random \in WorkerRandoms :
          PassChain(p, rpcOk, receipt, head, random)
    \/ \E p \in Passes : PassSaved(p)
    \/ \E p \in Passes, random \in WorkerRandoms : PassSaveFailed(p, random)
    \/ Tick

SeriesSpec == SeriesInit /\ [][SeriesNext]_vars

\* The middleware answering requests as the clock moves on.
RateInit == WorkerInitOf({[d \in Docs |-> NoDoc]}, Passes, SyncCalls)

RateNext ==
    \/ \E method \in Methods, path \in Paths, origin \in Origins, xff \in Forwarded :
          Middleware(method, path, origin, xff)
    \/ ClockAdvance

RateSpec == RateInit /\ [][RateNext]_vars

(***************************************************************************)
(* processPending: selection and outcomes                                  *)
(***************************************************************************)
\* The _ids of the documents a pass took.
Selected(rec) == {rec.pending[i].id : i \in DOMAIN rec.pending}
\* The retry time is missing, null, or not after the present.
RetryTimeDue(doc) == doc.nextRetryAt.kind # "date" \/ doc.nextRetryAt.at <= 0

\* C21: the documents a pass takes are PENDING with a retry time that is
\* unset or not after the start of the pass, and are at most 50; whatever a
\* step changes in a document, other than the passing of time, it changes in
\* the document the pass is handling, one of those it took.  A document that
\* is FINALIZED or has its retry time in the future when the pass starts is
\* not taken.
C21_PassActsOnDuePendingBatch ==
    [][\A p \in Passes :
          /\ PassBegins(p)
             => /\ Len(pass'[p].pending) <= 50
                /\ \A d \in Selected(pass'[p]) :
                      events[d].status = "PENDING" /\ RetryTimeDue(events[d])
                /\ \A d \in DOMAIN events :
                      (events[d].status = "FINALIZED" \/ ~RetryTimeDue(events[d]))
                      => d \notin Selected(pass'[p])
          /\ \A d \in DOMAIN events :
                (events'[d] # events[d] /\ events'[d] # ElapseDoc(events[d]))
                => /\ pass[p].pc = "save"
                   /\ d = pass[p].pending[pass[p].idx].id]_vars

\* A pass took 50 of 51 due events, has put off all 50, and left the 51st
\* and a finalized event as they were.
C21_Witness ==
    \E p \in Passes :
        /\ pass[p].pc = "done"
        /\ Len(pass[p].pending) = 50
        /\ \A d \in Selected(pass[p]) : events[d].attempts = 1
        /\ \E d \in DOMAIN events :
              d \notin Selected(pass[p]) /\ events[d] = StoredEvent("0xtx")
        /\ \E d \in DOMAIN events : events[d].status = "FINALIZED"

\* getConfirmations settles for the document the pass is handling.
ChainSettles(p) == pass[p].pc = "chain" /\ pass'[p].pc = "save"
\* ev.save() resolves and the pass moves on.
SaveResolves(p) == pass[p].pc = "save" /\ pass'[p].pc \in {"chain", "done"}
\* The document the pass is handling.
Current(rec) == rec.pending[rec.idx].id
\* The delays calcBackoff can give the worker for an attempt count.
WorkerDelays(attempts) ==
    {CalcBackoff(attempts, WorkerBackoff[1], WorkerBackoff[2], r) : r \in Randoms}
\* The pass's copy after the step differs from the one before in attempts,
\* one more, and in the retry time, now plus calcBackoff(new attempts).
PutOff(before, after) ==
    /\ after.attempts = before.attempts + 1
    /\ after.nextRetryAt.kind = "date"
    /\ after.nextRetryAt.at > 0
    /\ after.nextRetryAt.at \in WorkerDelays(after.attempts)
    /\ after.status = before.status
    /\ after.confirmations = before.confirmations

\* C22: when getConfirmations finds no receipt, the pass adds one to the
\* event's attempts, sets the retry time to now plus calcBackoff of the new
\* attempts, a time in the future, and saves; the save stores that count and
\* time and leaves the stored status, PENDING, and confirmations as they were.
C22_NoReceiptPutsOffPending ==
    [][\A p \in Passes :
          /\ (ChainSettles(p) /\ pass'[p].seen = "null")
             => /\ PutOff(pass[p].ev, pass'[p].ev)
                /\ pass'[p].ev.status = "PENDING"
          /\ (SaveResolves(p) /\ pass[p].seen = "null")
             => LET d == Current(pass[p])
                IN /\ events'[d].attempts = events[d].attempts + 1
                   /\ events'[d].attempts = pass[p].ev.attempts
                   /\ events'[d].nextRetryAt = pass[p].ev.nextRetryAt
                   /\ events'[d].status = "PENDING"
                   /\ events'[d].status = events[d].status
                   /\ events'[d].confirmations = events[d].confirmations]_vars

\* A pass that found no receipt has put an event off for the second time.
C22_Witness ==
    \E p \in Passes :
        /\ pass[p].pc = "done"
        /\ pass[p].seen = "null"
        /\ LET d == Current(pass[p])
           IN /\ events[d].attempts = 2
              /\ events[d].status = "PENDING"
              /\ events[d].nextRetryAt.kind = "date"
              /\ events[d].nextRetryAt.at > 0

C24_ChainErrorPutsOffKeepsStatus ==
    [][\A p \in Passes :
          /\ (ChainSettles(p) /\ pass'[p].seen = "throw")
             => /\ PutOff(pass[p].ev, pass'[p].ev)
                /\ pass'[p].branch = "catch"
          /\ (SaveResolves(p) /\ pass[p].seen = "throw")
             => LET d == Current(pass[p])
                IN /\ events'[d].attempts = events[d].attempts + 1
                   /\ events'[d].attempts = pass[p].ev.attempts
                   /\ events'[d].nextRetryAt = pass[p].ev.nextRetryAt
                   /\ events'[d].status = events[d].status
                   /\ events'[d].confirmations = events[d].confirmations]_vars

\* A pass whose chain read threw has put a tracked event off.
C24_Witness ==
    \E p \in Passes :
        /\ pass[p].pc = "done"
        /\ pass[p].seen = "throw"
        /\ LET d == Current(pass[p])
           IN /\ events[d].writer = "model"
              /\ events[d].attempts = 1
              /\ events[d].status = "PENDING"
              /\ events[d].nextRetryAt.kind = "date"
              /\ events[d].nextRetryAt.at > 0

(***************************************************************************)
(* runWorkerLoop: runs in flight together                                  *)
(***************************************************************************)
\* The run is between its query and its return.
Running(p) == pass[p].pc \in {"chain", "save"}

\* C25: a run of processPending begins only while no other run is in
\* flight, and no two runs handle the same event at the same time.
C25_PassesNeverOverlap ==
    /\ [][\A p \in DOMAIN pass :
            PassBegins(p) => \A q \in DOMAIN pass \ {p} : ~Running(q)]_vars
    /\ [](\A p, q \in DOMAIN pass :
            (p # q /\ Running(p) /\ Running(q)) => Current(pass[p]) # Current(pass[q]))

(***************************************************************************)
(* syncEventAndConfirm: calls in flight together                           *)
(***************************************************************************)
\* C26: the collection never holds two documents with the same eventId.
C26_OneRecordPerEventId ==
    \A eventId \in EventIds : Cardinality(WithEventId(events, eventId)) <= 1

(***************************************************************************)
(* Tracking and restarts                                                   *)
(***************************************************************************)
\* C27: a transaction that is being tracked stays tracked until the
\* tracking ends in success or exhaustion, or else a stored PENDING event
\* holds the obligation to check it.
C27_TrackingSurvivesRestart ==
    [][\A r \in Requests :
          tracker[r].state = "polling"
          => \/ tracker'[r].state \in {"polling", "confirmed", "exhausted"}
             \/ \E d \in DOMAIN events' :
                   events'[d].writer = "model" /\ events'[d].status = "PENDING"]_vars

(***************************************************************************)
(* POST /api/relay: configuration and validation errors                    *)
(***************************************************************************)
\* The request has obtained no nonce, sent nothing and started no tracking.
Untouched(r) ==
    /\ relay[r].attempt = 0
    /\ relay[r].nonceCalls = 0
    /\ relay[r].nonceUsed = <<>>
    /\ relay[r].sendCalls = 0
    /\ nonceCall[r].pc = "idle"
    /\ ~relay[r].tx.sent
    /\ tracker[r].state = "none"

Malformed(body) ==
    \/ DOMAIN body # Fields
    \/ /\ DOMAIN body = Fields
       /\ \/ body.to = NotHex
          \/ body.data = NotHex
          \/ body.pollId = Empty
          \/ body.chainId <= 0
          \/ body.deadline <= 0

\* C29: with both secrets set, a request whose body is not well-formed is
\* answered 400 'Validation Failed' in the step that receives it; it makes
\* no attempt, obtains no nonce and sends nothing.
C29_MalformedBodyAnswered400 ==
    (env.INFURA_URL /\ env.RELAYER_PRIVATE_KEY)
    => \A r \in Received :
          Malformed(relay[r].body)
          => /\ relay[r].pc = "done"
             /\ relay[r].response.status = 400
             /\ relay[r].response.error = "Validation Failed"
             /\ Untouched(r)

\* A request with chainId 0 was answered 400 'Validation Failed'.
C29_Witness ==
    \E r \in Received :
        /\ DOMAIN relay[r].body = Fields
        /\ relay[r].body.chainId = 0
        /\ relay[r].response.status = 400
        /\ relay[r].response.error = "Validation Failed"

(***************************************************************************)
(* middleware: the rate limit                                              *)
(***************************************************************************)
\* The step is the middleware answering a request to an /api path.
AnswersApi ==
    /\ <<rateLimitCache', lastRequest'>> # <<rateLimitCache, lastRequest>>
    /\ StartsWithApi(lastRequest'.path)
\* ip has an entry whose reset time is not behind the clock, and
\* RATE_LIMIT_MAX of its requests were let through since the entry began.
WindowFull(ip) ==
    /\ ip \in DOMAIN rateLimitCache
    /\ clock <= rateLimitCache[ip].resetTime
    /\ ip \in DOMAIN passedInWindow
    /\ passedInWindow[ip] >= RATE_LIMIT_MAX
\* ip has an entry whose reset time is behind the clock.
WindowOver(ip) ==
    /\ ip \in DOMAIN rateLimitCache
    /\ rateLimitCache[ip].resetTime < clock
\* No ip has more than RATE_LIMIT_MAX requests let through in its window.
WithinLimit(passed) == \A ip \in DOMAIN passed : passed[ip] <= RATE_LIMIT_MAX

\* C30 as stated: per ip at most RATE_LIMIT_MAX requests to /api paths are
\* let through in one window, every further request of that ip to an /api
\* path in the window is answered 429, and once the reset time has passed
\* the ip's requests are not answered 429.
C30_EveryFurtherRequest429 ==
    [][/\ WithinLimit(passedInWindow')
       /\ (AnswersApi /\ WindowFull(lastRequest'.ip)) => lastRequest'.result = "429"
       /\ (AnswersApi /\ WindowOver(lastRequest'.ip)) => lastRequest'.result # "429"]_vars

\* C30, amended: per ip at most RATE_LIMIT_MAX requests to /api paths are
\* let through in one window; every further request of that ip to an /api
\* path in the window whose method is not OPTIONS is answered 429; an
\* OPTIONS request is answered 204 or 403 and leaves the cache as it was;
\* and once the reset time has passed the next request of the ip that is
\* not OPTIONS is let through.
C30_FurtherRequestsButPreflight429 ==
    [][/\ WithinLimit(passedInWindow')
       /\ (AnswersApi /\ lastRequest'.method # "OPTIONS" /\ WindowFull(lastRequest'.ip))
            => lastRequest'.result = "429"
       /\ (AnswersApi /\ lastRequest'.method = "OPTIONS")
            => /\ lastRequest'.result \in {"204", "403"}
               /\ rateLimitCache' = rateLimitCache
       /\ (AnswersApi /\ lastRequest'.method # "OPTIONS" /\ WindowOver(lastRequest'.ip))
            => lastRequest'.result = "next"]_vars
\* An ip whose entry began after an earlier window of its own ran out is
\* answered 429, RATE_LIMIT_MAX of its requests having been let through.
C30_Witness ==
    /\ lastRequest.result = "429"
    /\ lastRequest.ip \in DOMAIN rateLimitCache
    /\ rateLimitCache[lastRequest.ip].resetTime > RATE_LIMIT_WINDOW_MS
    /\ passedInWindow[lastRequest.ip] = RATE_LIMIT_MAX

(***************************************************************************)
(* trackTransactionConfirmation: the waits between attempts                *)
(***************************************************************************)
\* The tracker r sleeps in this step and enters its next attempt.
TrackWaits(r) == tracker'[r].attempt = tracker[r].attempt + 1
\* The milliseconds the tracker r sleeps in this step.
TrackWaited(r) == tracker'[r].slept - tracker[r].slept
\* calcBackoff's largest result under its defaults: the maximum and its jitter.
BackoffCeiling == 60000 + 60000 \div 5

PassEnds(p) == pass[p].pc \in {"chain", "save"} /\ pass'[p].pc \in {"done", "failed"}

\* C32: a run of processPending ends only after the last event it selected:
\* a failed read of the chain or a failed save on one event does not keep the
\* run from the events after it.
C32_FailureDoesNotStopPass ==
    [][\A p \in Passes : PassEnds(p) => pass[p].idx = Len(pass[p].pending)]_vars

(***************************************************************************)
(* trackTransactionConfirmation: errors stay inside                        *)
(***************************************************************************)
\* The attempt in flight of the tracker r ends in this step on a failed read.
TrackAttemptFails(r) ==
    /\ tracker[r].state = "polling"
    /\ tracker'[r] # tracker[r]
    /\ tracker'[r].seen.kind = "error"

\* C33: the tracking call is in flight or has returned, never rejected; a
\* failed read of the chain ends the attempt in flight and no other (the next
\* attempt follows, or the run is over when it was the last); and no step of
\* the tracker touches the request or the response it was given.
C33_TrackingErrorsContained ==
    [][\A r \in Requests :
          /\ tracker'[r].state \in {"none", "noRpc", "polling", "confirmed", "exhausted"}
          /\ TrackAttemptFails(r) =>
                \/ /\ tracker[r].attempt < MAX_ATTEMPTS
                   /\ tracker'[r].state = "polling"
                   /\ tracker'[r].attempt = tracker[r].attempt + 1
                \/ /\ tracker[r].attempt = MAX_ATTEMPTS
                   /\ tracker'[r].state = "exhausted"
                   /\ tracker'[r].attempt = MAX_ATTEMPTS
          /\ (relay[r].pc = "done" /\ tracker'[r] # tracker[r]) => relay'[r] = relay[r]]_vars
\* The request was answered 200 and the tracker's last attempt met a failed
\* read after earlier attempts.
C33_Witness ==
    \E r \in Requests :
        /\ relay[r].pc = "done"
        /\ relay[r].response.status = 200
        /\ tracker[r].state = "exhausted"
        /\ tracker[r].seen.kind = "error"

(***************************************************************************)
(* POST /api/event/sync: what it answers                                   *)
(***************************************************************************)
\* The request of the call c came with an object that lacks a field.
LacksField(c) ==
    /\ c.body.kind = "object"
    /\ c.body.eventId \in {"", "absent"} \/ c.body.requestId \in {"", "absent"}
\* The handler called syncEventAndConfirm for c and the call threw.
SyncFailed(c) == c.pc = "done" /\ c.eventId # "absent" /\ c.result = NoResult

StoredAcks(coll, eventId) ==
    IF WithEventId(coll, eventId) = {} THEN 0
    ELSE coll[FirstWithEventId(coll, eventId)].confirmationCount
\* The call s returns in this step.
SyncReturns(s) == syncCall[s].pc # "done" /\ syncCall'[s].pc = "done"
\* What the call number k for an event returns.
AckAnswer(k) ==
    IF k = 1 THEN [status |-> "PENDING", confirmationCount |-> 1]
    ELSE IF k = 2 THEN [status |-> "CONFIRMED", confirmationCount |-> 2]
    ELSE [status |-> "FINALIZED", confirmationCount |-> 2]

\* C35: of the calls for one eventId, made one after another, the first
\* stores the event and returns PENDING with count 1, the second returns
\* CONFIRMED with count 2 and every later one FINALIZED with count 2 (the
\* calls before a call are counted by the acknowledgements it finds stored,
\* which are 0, 1 and 2 from the second call on); the stored count is never
\* above 2 and never goes down.
C35_SequentialAcknowledgements ==
    [][/\ \A s \in DOMAIN syncCall : SyncReturns(s) =>
            LET eventId == syncCall'[s].eventId
                found == IF syncCall[s].pc = "insert" THEN 0
                         ELSE IF syncCall[s].pc = "update" THEN syncCall[s].count - 1
                         ELSE StoredAcks(events, eventId)
            IN /\ syncCall'[s].result = AckAnswer(found + 1)
               /\ StoredAcks(events', eventId) = Min(found + 1, 2)
       /\ \A eventId \in SeqEventIds :
            /\ StoredAcks(events', eventId) <= 2
            /\ StoredAcks(events', eventId) >= StoredAcks(events, eventId)
            /\ StoredAcks(events', eventId) <= StoredAcks(events, eventId) + 1]_vars
\* Three or more calls were made for an event: the latest returned FINALIZED,
\* and the event is stored as CONFIRMED with 2 acknowledgements.
C35_Witness ==
    \E s \in DOMAIN syncCall, d \in DOMAIN events :
        /\ syncCall[s].pc = "done"
        /\ syncCall[s].result = [status |-> "FINALIZED", confirmationCount |-> 2]
        /\ events[d].eventId = syncCall[s].eventId
        /\ events[d].confirmationCount = 2
        /\ events[d].status = "CONFIRMED"

(***************************************************************************)
(* POST /api/relay: one transaction per request                            *)
(***************************************************************************)
\* The requests whose send succeeded.
Sent == {r \in Requests : relay[r].tx.sent}

\* C36: the chain holds at most one transaction per request, that of the
\* request's last attempt; the attempt whose send succeeds ends the loop, and
\* from then on the request neither calls getNextNonce nor sends again.
C36_OneTransactionPerRequest ==
    /\ [](/\ Cardinality(chainTx) <= Cardinality(Sent)
          /\ \A r \in Sent :
                /\ relay[r].pc = "done"
                /\ relay[r].sendCalls = Len(relay[r].nonceUsed)
                /\ relay[r].tx.nonce = relay[r].nonceUsed[relay[r].sendCalls]
                /\ nonceCall[r].pc = "idle")
    /\ [][\A r \in Sent :
             /\ relay'[r].tx = relay[r].tx
             /\ relay'[r].nonceCalls = relay[r].nonceCalls
             /\ relay'[r].sendCalls = relay[r].sendCalls
             /\ relay'[r].nonceUsed = relay[r].nonceUsed]_vars
\* A send succeeded on the second attempt, with the last attempt unused.
C36_Witness ==
    \E r \in Requests :
        /\ relay[r].tx.sent
        /\ relay[r].attempt = 1
        /\ relay[r].nonceCalls = 2
        /\ relay[r].sendCalls = 2
        /\ Cardinality(chainTx) = 1

(***************************************************************************)
(* processPending: the statuses it leaves                                  *)
(***************************************************************************)
\* The run p is done with the event it was handling: its save resolved, or
\* rejected for the second time.
PassLeaves(p) == pass[p].pc = "save" /\ pass'[p].pc \in {"chain", "done", "failed"}

\* C37: a save of a pass changes the stored status only from PENDING to
\* FINALIZED, and an event a pass is done with is FINALIZED or PENDING,
\* never CONFIRMED or FAILED.
C37_PassOnlyFinalizes ==
    [][\A p \in DOMAIN pass : PassLeaves(p) =>
          LET d == Current(pass[p])
          IN /\ events'[d].status # events[d].status =>
                   (events[d].status = "PENDING" /\ events'[d].status = "FINALIZED")
             /\ events'[d].status \in {"PENDING", "FINALIZED"}]_vars

(***************************************************************************)
(* POST /api/relay: the nonce of a failed attempt                          *)
(***************************************************************************)
\* The nonce getNextNonce returned last.
LastIssued == nonceLog[Len(nonceLog)]
\* The send of an attempt of some request with nonce n failed.
SendFailedWith(n) ==
    \E r \in Requests : \E i \in DOMAIN relay[r].nonceUsed :
        /\ relay[r].nonceUsed[i] = n
        /\ \/ i < relay[r].sendCalls
           \/ relay[r].pc = "sleep"
           \/ relay[r].pc = "done" /\ ~relay[r].tx.sent
\* getNextNonce returns to c in this step.
NonceReturns(c) == nonceCall[c].pc = "awaitCount" /\ nonceCall'[c].pc = "returned"

\* C38: when the send with the nonce n issued last has failed and the chain
\* still reports n as pending, the next getNextNonce call returns n + 1; and
\* no nonce is issued twice, so n stays unused.
C38_FailedNonceLeftAsGap ==
    [][/\ \A c \in DOMAIN nonceCall :
            (/\ NonceReturns(c)
             /\ nonceLog # <<>>
             /\ SendFailedWith(LastIssued)
             /\ nonceCall'[c].networkNonce = LastIssued)
            => /\ nonceCall'[c].nextNonce = LastIssued + 1
               /\ nonceLog' = Append(nonceLog, LastIssued + 1)
       /\ \A i, j \in DOMAIN nonceLog' : i # j => nonceLog'[i] # nonceLog'[j]]_vars
\* The first send of a request failed with nonce n, the chain still reported
\* n to the second attempt, and the second attempt was given n + 1.
C38_Witness ==
    \E r \in Requests :
        /\ relay[r].attempt = 1
        /\ relay[r].pc = "awaitNonce"
        /\ nonceCall[r].pc = "returned"
        /\ relay[r].sendCalls = 1
        /\ nonceCall[r].networkNonce = relay[r].nonceUsed[1]
        /\ nonceCall[r].nextNonce = relay[r].nonceUsed[1] + 1

C40_AcknowledgementsApartFromTracking ==
    [][/\ \A p \in DOMAIN pass :
            /\ PassBegins(p) => Selected(pass'[p]) \cap AckDocs = {}
            /\ pass'[p] # pass[p] => \A d \in AckDocs : events'[d] = events[d]
       /\ \A s \in DOMAIN syncCall :
            syncCall'[s] # syncCall[s] => \A d \in TrackedDocs : events'[d] = events[d]]_vars

====
